---- MODULE Spec2Model ----
(***************************************************************************)
(* Schema-directed value codec of soroban-tools (cmd/strval).              *)
(*                                                                         *)
(* The codec is a family of pure functions between three representations:  *)
(* JSON values (serde_json::Value), text, and the tagged binary value       *)
(* model (ScVal / ScObject), directed by a contract schema (Spec).          *)
(* Every sum type of the source is modelled as a tuple whose first element  *)
(* is the variant name; strings are sequences of byte values; integers of   *)
(* any width are a sign and a sequence of decimal digits, so that the       *)
(* range checks of the source (u32, i64, u64, u128, ...) keep their width.  *)
(***************************************************************************)
EXTENDS Integers, Sequences, FiniteSets, TLC

(***************************************************************************)
(* Strings: sequences of byte values.                                       *)
(***************************************************************************)
s_a == <<97>>
s_b == <<98>>
s_c == <<99>>
s_x == <<120>>
s_to == <<116, 111>>
s_hello == <<104, 101, 108, 108, 111>>
s_world == <<119, 111, 114, 108, 100>>
s_add == <<97, 100, 100>>
s_Red == <<82, 101, 100>>
s_Named == <<78, 97, 109, 101, 100>>
s_blue == <<98, 108, 117, 101>>
s_Pt == <<80, 116>>
s_Pair == <<80, 97, 105, 114>>
s_Color == <<67, 111, 108, 111, 114>>
s_Status == <<83, 116, 97, 116, 117, 115>>
s_Missing == <<77, 105, 115, 115, 105, 110, 103>>
s_null == <<110, 117, 108, 108>>
s_true == <<116, 114, 117, 101>>
s_false == <<102, 97, 108, 115, 101>>
s_u32 == <<117, 51, 50>>
s_i32 == <<105, 51, 50>>
s_u63 == <<117, 54, 51>>
s_static == <<115, 116, 97, 116, 105, 99>>
s_object == <<111, 98, 106, 101, 99, 116>>
s_void == <<118, 111, 105, 100>>
s_Ok == <<79, 107>>
s_Err == <<69, 114, 114>>

SubStr(s, i, j) == [k \in 1..(j - i) |-> s[i + k - 1]]

\* Byte-wise lexicographic comparison (Ord for [u8] and str): -1, 0 or 1.
RECURSIVE LexCmpFrom(_, _, _)
LexCmpFrom(a, b, i) ==
    IF i > Len(a) /\ i > Len(b) THEN 0
    ELSE IF i > Len(a) THEN -1
    ELSE IF i > Len(b) THEN 1
    ELSE IF a[i] < b[i] THEN -1
    ELSE IF a[i] > b[i] THEN 1
    ELSE LexCmpFrom(a, b, i + 1)

LexCmp(a, b) == LexCmpFrom(a, b, 1)

\* The elements of a set of strings in ascending order: the iteration order
\* of serde_json::Map (a BTreeMap<String, Value> in the default build).
RECURSIVE SortedKeys(_)
SortedKeys(S) ==
    IF S = {} THEN <<>>
    ELSE LET m == CHOOSE k \in S : \A o \in S : LexCmp(k, o) <= 0
         IN <<m>> \o SortedKeys(S \ {m})

(***************************************************************************)
(* Integers: <<neg, mag>>, mag the decimal digits without leading zeros.   *)
(***************************************************************************)
U32_MAX == <<4,2,9,4,9,6,7,2,9,5>>
I32_MAX == <<2,1,4,7,4,8,3,6,4,7>>
I32_MIN_MAG == <<2,1,4,7,4,8,3,6,4,8>>
U64_MAX == <<1,8,4,4,6,7,4,4,0,7,3,7,0,9,5,5,1,6,1,5>>
I64_MAX == <<9,2,2,3,3,7,2,0,3,6,8,5,4,7,7,5,8,0,7>>
I64_MIN_MAG == <<9,2,2,3,3,7,2,0,3,6,8,5,4,7,7,5,8,0,8>>
U128_MAX == <<3,4,0,2,8,2,3,6,6,9,2,0,9,3,8,4,6,3,4,6,3,3,7,4,6,0,7,4,3,1,7,6,8,2,1,1,4,5,5>>
I128_MAX == <<1,7,0,1,4,1,1,8,3,4,6,0,4,6,9,2,3,1,7,3,1,6,8,7,3,0,3,7,1,5,8,8,4,1,0,5,7,2,7>>
I128_MIN_MAG == <<1,7,0,1,4,1,1,8,3,4,6,0,4,6,9,2,3,1,7,3,1,6,8,7,3,0,3,7,1,5,8,8,4,1,0,5,7,2,8>>
U8_MAX == <<2,5,5>>

MagCmp(a, b) ==
    IF Len(a) # Len(b) THEN (IF Len(a) < Len(b) THEN -1 ELSE 1) ELSE LexCmpFrom(a, b, 1)

Big(neg, mag) == <<neg, mag>>

BigCmp(x, y) ==
    IF x[1] /\ ~y[1] THEN -1
    ELSE IF ~x[1] /\ y[1] THEN 1
    ELSE IF x[1] THEN MagCmp(y[2], x[2])
    ELSE MagCmp(x[2], y[2])

\* The digits of a small natural number.
RECURSIVE MagOf(_)
MagOf(n) == IF n < 10 THEN <<n>> ELSE MagOf(n \div 10) \o <<n % 10>>

\* The value of a short digit sequence (used for byte values only).
RECURSIVE MagVal(_)
MagVal(m) == IF Len(m) = 0 THEN 0 ELSE 10 * MagVal(SubSeq(m, 1, Len(m) - 1)) + m[Len(m)]

Nat2Big(n) == Big(FALSE, MagOf(n))

\* Drop leading zeros of a digit sequence (at least one digit is kept).
RECURSIVE StripZeros(_)
StripZeros(m) == IF Len(m) > 1 /\ m[1] = 0 THEN StripZeros(Tail(m)) ELSE m

DigitsToText(m) == [k \in 1..Len(m) |-> m[k] + 48]

\* uN::to_string / iN::to_string
IntToText(big) == IF big[1] THEN <<45>> \o DigitsToText(big[2]) ELSE DigitsToText(big[2])

(***************************************************************************)
(* serde_json::Value                                                        *)
(***************************************************************************)
JNull == <<"Null">>
JBool(b) == <<"Bool", b>>
JPosInt(mag) == <<"Number", <<"PosInt", mag>>>>
JNegInt(mag) == <<"Number", <<"NegInt", mag>>>>
JFloat(text) == <<"Number", <<"Float", text>>>>
JString(s) == <<"String", s>>
JArray(a) == <<"Array", a>>
JObject(m) == <<"Object", m>>
EmptyMap == [k \in {} |-> JNull]

\* serde_json::Number::from for an integer of any of the widths used.
NumberFrom(big) ==
    IF big[1] THEN JNegInt(big[2]) ELSE JPosInt(big[2])

\* Number::as_u64 / Value::as_u64: <<"Some", mag>> or <<"None">>.
as_u64(v) ==
    IF v[1] = "Number" /\ v[2][1] = "PosInt" THEN <<"Some", Big(FALSE, v[2][2])>>
    ELSE <<"None">>

\* Number::as_i64.
as_i64(v) ==
    IF v[1] = "Number" /\ v[2][1] = "PosInt" /\ MagCmp(v[2][2], I64_MAX) <= 0
        THEN <<"Some", Big(FALSE, v[2][2])>>
    ELSE IF v[1] = "Number" /\ v[2][1] = "NegInt" THEN <<"Some", Big(TRUE, v[2][2])>>
    ELSE <<"None">>

MapInsert(m, k, v) == [x \in (DOMAIN m) \cup {k} |-> IF x = k THEN v ELSE m[x]]

(***************************************************************************)
(* serde_json::from_str: the JSON grammar over byte strings, as a lexer and *)
(* a parser with an explicit stack. Escapes other than \" \\ \/ \n \t \r \b *)
(* \f are outside the strings the model uses.                               *)
(***************************************************************************)
IsDigit(c) == c >= 48 /\ c <= 57

At(s, i, c) == i <= Len(s) /\ s[i] = c

HasPrefixAt(s, i, lit) == i + Len(lit) - 1 <= Len(s) /\ SubStr(s, i, i + Len(lit)) = lit

RECURSIVE ScanDigits(_, _)
ScanDigits(s, i) == IF i <= Len(s) /\ IsDigit(s[i]) THEN ScanDigits(s, i + 1) ELSE i

\* The body of a string literal, from the byte after the opening quote.
RECURSIVE ScanString(_, _, _)
ScanString(s, i, acc) ==
    IF i > Len(s) THEN <<"err">>
    ELSE IF s[i] = 34 THEN <<"ok", acc, i + 1>>
    ELSE IF s[i] < 32 THEN <<"err">>
    ELSE IF s[i] = 92 THEN
        IF i + 1 > Len(s) THEN <<"err">>
        ELSE IF s[i + 1] \in {34, 92, 47} THEN ScanString(s, i + 2, Append(acc, s[i + 1]))
        ELSE IF s[i + 1] = 110 THEN ScanString(s, i + 2, Append(acc, 10))
        ELSE IF s[i + 1] = 116 THEN ScanString(s, i + 2, Append(acc, 9))
        ELSE IF s[i + 1] = 114 THEN ScanString(s, i + 2, Append(acc, 13))
        ELSE IF s[i + 1] = 98 THEN ScanString(s, i + 2, Append(acc, 8))
        ELSE IF s[i + 1] = 102 THEN ScanString(s, i + 2, Append(acc, 12))
        ELSE <<"err">>
    ELSE ScanString(s, i + 1, Append(acc, s[i]))

\* One or more digits from i: the index after them, or 0 when there is none.
\* An index of 0 stands for a malformed literal from here on.
Digits1(s, i) == IF i = 0 \/ ~(i <= Len(s) /\ IsDigit(s[i])) THEN 0 ELSE ScanDigits(s, i)

\* The exponent part, if any, of a number whose mantissa ends before i.
NumberExp(s, i) ==
    IF i = 0 THEN 0
    ELSE IF i <= Len(s) /\ s[i] \in {101, 69}
        THEN Digits1(s, IF i + 1 <= Len(s) /\ s[i + 1] \in {43, 45} THEN i + 2 ELSE i + 1)
    ELSE i

\* The fraction part, if any, of a number whose integer part ends before i.
NumberFrac(s, i) ==
    IF i = 0 THEN 0
    ELSE IF At(s, i, 46) THEN NumberExp(s, Digits1(s, i + 1))
    ELSE NumberExp(s, i)

\* The index after the number literal at i, or 0 when it is malformed. The
\* integer part is a single 0 or digits.
NumberEnd(s, i) ==
    IF At(s, i, 45)
        THEN NumberFrac(s, IF At(s, i + 1, 48) THEN i + 2 ELSE Digits1(s, i + 1))
    ELSE NumberFrac(s, IF At(s, i, 48) THEN i + 1 ELSE Digits1(s, i))

\* The value of the number literal text. Integers in the u64 / i64 range
\* become PosInt / NegInt; everything else (fraction, exponent, out of range,
\* -0) is a Float.
NumberValue(text) ==
    IF text[1] = 45 THEN
        IF (\A k \in 2..Len(text) : IsDigit(text[k]))
           /\ Len(text) # 2 /\ MagCmp([k \in 1..(Len(text) - 1) |-> text[k + 1] - 48], I64_MIN_MAG) <= 0
           /\ text # <<45, 48>>
            THEN JNegInt([k \in 1..(Len(text) - 1) |-> text[k + 1] - 48])
        ELSE JFloat(text)
    ELSE IF (\A k \in 1..Len(text) : IsDigit(text[k]))
            /\ MagCmp([k \in 1..Len(text) |-> text[k] - 48], U64_MAX) <= 0
        THEN JPosInt([k \in 1..Len(text) |-> text[k] - 48])
    ELSE JFloat(text)

\* The lexer: the tokens of s from i on, <<"p", c>> for the punctuation byte
\* c and <<"v", j>> for the string, number or literal j.
RECURSIVE Lex(_, _, _)
Lex(s, i, acc) ==
    IF i > Len(s) THEN <<"ok", acc>>
    ELSE IF s[i] \in {32, 9, 10, 13} THEN Lex(s, i + 1, acc)
    ELSE IF s[i] \in {91, 93, 123, 125, 44, 58} THEN Lex(s, i + 1, Append(acc, <<"p", s[i]>>))
    ELSE IF s[i] = 34 THEN
        LET r == ScanString(s, i + 1, <<>>)
        IN  IF r[1] = "ok" THEN Lex(s, r[3], Append(acc, <<"v", JString(r[2])>>))
            ELSE <<"err">>
    ELSE IF s[i] = 45 \/ IsDigit(s[i]) THEN
        LET j == NumberEnd(s, i)
        IN  IF j = 0 THEN <<"err">>
            ELSE Lex(s, j, Append(acc, <<"v", NumberValue(SubStr(s, i, j))>>))
    ELSE IF HasPrefixAt(s, i, s_null) THEN Lex(s, i + 4, Append(acc, <<"v", JNull>>))
    ELSE IF HasPrefixAt(s, i, s_true) THEN Lex(s, i + 4, Append(acc, <<"v", JBool(TRUE)>>))
    ELSE IF HasPrefixAt(s, i, s_false) THEN Lex(s, i + 5, Append(acc, <<"v", JBool(FALSE)>>))
    ELSE <<"err">>

IsPunct(toks, i, c) == i <= Len(toks) /\ toks[i] = <<"p", c>>

\* The open array <<"A", items>> or object <<"O", members, key>> on top of
\* the stack, with the value v added to it.
WithValue(top, v) ==
    IF top[1] = "A" THEN <<"A", Append(top[2], v)>>
    ELSE <<"O", MapInsert(top[2], top[3], v), <<>>>>

Closed(top) == IF top[1] = "A" THEN JArray(top[2]) ELSE JObject(top[2])

\* The parser. st is "value" when a value is expected at token i, "key" when
\* an object key and its colon are, and "got" when the value v has just been
\* completed; stack holds the arrays and objects that are open, innermost
\* last.
RECURSIVE ParseTokens(_, _, _, _, _)
ParseTokens(toks, i, stack, st, v) ==
    IF st = "value" THEN
        IF i > Len(toks) THEN <<"err">>
        ELSE IF toks[i][1] = "v" THEN ParseTokens(toks, i + 1, stack, "got", toks[i][2])
        ELSE IF toks[i][2] = 91 THEN
            IF IsPunct(toks, i + 1, 93)
                THEN ParseTokens(toks, i + 2, stack, "got", JArray(<<>>))
            ELSE ParseTokens(toks, i + 1, Append(stack, <<"A", <<>>>>), "value", v)
        ELSE IF toks[i][2] = 123 THEN
            IF IsPunct(toks, i + 1, 125)
                THEN ParseTokens(toks, i + 2, stack, "got", JObject(EmptyMap))
            ELSE ParseTokens(toks, i + 1, Append(stack, <<"O", EmptyMap, <<>>>>), "key", v)
        ELSE <<"err">>
    ELSE IF st = "key" THEN
        IF i <= Len(toks) /\ toks[i][1] = "v" /\ toks[i][2][1] = "String"
           /\ IsPunct(toks, i + 1, 58)
            THEN ParseTokens(toks, i + 2,
                     [stack EXCEPT ![Len(stack)] = <<"O", @[2], toks[i][2][2]>>], "value", v)
        ELSE <<"err">>
    ELSE IF stack = <<>> THEN
        IF i > Len(toks) THEN <<"ok", v>> ELSE <<"err">>
    ELSE IF IsPunct(toks, i, 44) THEN
        ParseTokens(toks, i + 1,
            [stack EXCEPT ![Len(stack)] = WithValue(@, v)],
            IF stack[Len(stack)][1] = "A" THEN "value" ELSE "key", v)
    ELSE IF IsPunct(toks, i, IF stack[Len(stack)][1] = "A" THEN 93 ELSE 125) THEN
        ParseTokens(toks, i + 1, SubSeq(stack, 1, Len(stack) - 1), "got",
            Closed(WithValue(stack[Len(stack)], v)))
    ELSE <<"err">>

\* serde_json::from_str::<Value>: one value, then only white space.
serde_json_from_str_tokens(toks) ==
    IF toks[1] = "ok" THEN ParseTokens(toks[2], 1, <<>>, "value", JNull) ELSE toks

serde_json_from_str_value(r) ==
    IF r[1] = "ok" THEN <<"Ok", r[2]>> ELSE <<"Err", <<"Serde">>>>

serde_json_from_str(s) ==
    serde_json_from_str_value(serde_json_from_str_tokens(Lex(s, 1, <<>>)))

(***************************************************************************)
(* Value::to_string (Display): the compact serialization.                   *)
(***************************************************************************)
EscapeChar(c) ==
    IF c = 34 THEN <<92, 34>>
    ELSE IF c = 92 THEN <<92, 92>>
    ELSE IF c = 10 THEN <<92, 110>>
    ELSE IF c = 9 THEN <<92, 116>>
    ELSE IF c = 13 THEN <<92, 114>>
    ELSE IF c = 8 THEN <<92, 98>>
    ELSE IF c = 12 THEN <<92, 102>>
    ELSE <<c>>

RECURSIVE Escape(_)
Escape(s) == IF Len(s) = 0 THEN <<>> ELSE EscapeChar(Head(s)) \o Escape(Tail(s))

Quote(s) == <<34>> \o Escape(s) \o <<34>>

RECURSIVE JsonToString(_), JoinArr(_, _), JoinObj(_, _, _)
JsonToString(v) ==
    CASE v[1] = "Null" -> s_null
      [] v[1] = "Bool" -> IF v[2] THEN s_true ELSE s_false
      [] v[1] = "Number" ->
            IF v[2][1] = "PosInt" THEN DigitsToText(v[2][2])
            ELSE IF v[2][1] = "NegInt" THEN <<45>> \o DigitsToText(v[2][2])
            ELSE v[2][2]
      [] v[1] = "String" -> Quote(v[2])
      [] v[1] = "Array" -> <<91>> \o JoinArr(v[2], 1) \o <<93>>
      [] v[1] = "Object" -> <<123>> \o JoinObj(v[2], SortedKeys(DOMAIN v[2]), 1) \o <<125>>

JoinArr(a, i) ==
    IF i > Len(a) THEN <<>>
    ELSE (IF i > 1 THEN <<44>> ELSE <<>>) \o JsonToString(a[i]) \o JoinArr(a, i + 1)

JoinObj(m, keys, i) ==
    IF i > Len(keys) THEN <<>>
    ELSE (IF i > 1 THEN <<44>> ELSE <<>>) \o Quote(keys[i]) \o <<58>>
         \o JsonToString(m[keys[i]]) \o JoinObj(m, keys, i + 1)

(***************************************************************************)
(* Result<T, Error>, with a third outcome for a panic (todo!(), unwrap()    *)
(* on an absent value, an index out of range).                              *)
(***************************************************************************)
Ok(v) == <<"Ok", v>>
Err(e) == <<"Err", e>>
Panic(where) == <<"Panic", where>>
IsOk(r) == r[1] = "Ok"

\* enum Error
Error_Unknown == <<"Unknown">>
Error_InvalidValue(optType) == <<"InvalidValue", optType>>
Error_EnumCase(case, union) == <<"EnumCase", case, union>>
Error_EnumMissingSecondValue(case, typeName) == <<"EnumMissingSecondValue", case, typeName>>
Error_EnumConst(n) == <<"EnumConst", n>>
Error_EnumConstTooLarge(n) == <<"EnumConstTooLarge", n>>
Error_MissingEntry(name) == <<"MissingEntry", name>>
Error_Xdr == <<"Xdr">>
Error_Serde == <<"Serde">>
Error_Temp == <<"Temp">>

Some(x) == <<"Some", x>>
None == <<"None">>

\* iter.map(f).collect::<Result<Vec<_>, _>>() over the already mapped
\* results: the first element that is not Ok decides, else the values.
Collect(rs) ==
    IF \E i \in 1..Len(rs) : ~IsOk(rs[i])
        THEN rs[CHOOSE i \in 1..Len(rs) : ~IsOk(rs[i]) /\ \A j \in 1..(i - 1) : IsOk(rs[j])]
    ELSE Ok([i \in 1..Len(rs) |-> rs[i][2]])

(***************************************************************************)
(* ScSpecTypeDef                                                            *)
(***************************************************************************)
T_Bool == <<"Bool">>
T_U32 == <<"U32">>
T_I32 == <<"I32">>
T_U64 == <<"U64">>
T_I64 == <<"I64">>
T_U128 == <<"U128">>
T_I128 == <<"I128">>
T_Symbol == <<"Symbol">>
T_AccountId == <<"AccountId">>
T_Bytes == <<"Bytes">>
T_BytesN(n) == <<"BytesN", n>>
T_Vec(element_type) == <<"Vec", element_type>>
T_Map(key_type, value_type) == <<"Map", key_type, value_type>>
T_Option(value_type) == <<"Option", value_type>>
T_Tuple(value_types) == <<"Tuple", value_types>>
T_Udt(name) == <<"Udt", name>>
T_Bitset == <<"Bitset">>
T_Status == <<"Status">>
T_Result(ok_type, error_type) == <<"Result", ok_type, error_type>>
T_Set(element_type) == <<"Set", element_type>>

PrimitiveTypeTags ==
    {"Bool", "U128", "I128", "I32", "I64", "U32", "U64", "Symbol", "AccountId", "Bytes", "BytesN"}

(***************************************************************************)
(* ScVal and ScObject                                                       *)
(***************************************************************************)
ScVal_U63(v) == <<"U63", v>>
ScVal_U32(v) == <<"U32", v>>
ScVal_I32(v) == <<"I32", v>>
ScVal_Static(s) == <<"Static", s>>
ScVal_Object(opt) == <<"Object", opt>>
ScVal_Symbol(bytes) == <<"Symbol", bytes>>
ScVal_Bitset(v) == <<"Bitset", v>>
ScVal_Status(v) == <<"Status", v>>

ScObject_Vec(v) == <<"Vec", v>>
ScObject_Map(entries) == <<"Map", entries>>
ScObject_U64(v) == <<"U64", v>>
ScObject_I64(v) == <<"I64", v>>
ScObject_U128(v) == <<"U128", v>>
ScObject_I128(v) == <<"I128", v>>
ScObject_Bytes(b) == <<"Bytes", b>>
ScObject_ContractCode(c) == <<"ContractCode", c>>
ScObject_AccountId(key) == <<"AccountId", key>>

ScMapEntry(key, val) == <<key, val>>

\* The wrapper used throughout: ScVal::Object(Some(obj)).
ObjVal(obj) == ScVal_Object(Some(obj))

\* ScObject::try_from(ScVal) accepting every ScVal: a value that is no
\* object is taken whole.
ScObject_try_from_any(v) ==
    IF v[1] = "Object" /\ v[2][1] = "Some" THEN Ok(v[2][2]) ELSE Ok(v)

\* TryFrom<ScVal> for ScObject: only Object(Some(o)) converts.
ScObject_try_from(v) ==
    IF v[1] = "Object" /\ v[2][1] = "Some" THEN Ok(v[2][2]) ELSE Err(<<>>)

\* Length caps of the XDR containers.
SymbolLimit == 10
VecLimit == 256000

(***************************************************************************)
(* hex, strkey and integer text                                             *)
(***************************************************************************)
HexVal(c) ==
    IF c >= 48 /\ c <= 57 THEN c - 48
    ELSE IF c >= 97 /\ c <= 102 THEN c - 87
    ELSE IF c >= 65 /\ c <= 70 THEN c - 55
    ELSE -1

HexChar(d) == IF d < 10 THEN d + 48 ELSE d + 87

\* hex::decode
hex_decode(s) ==
    IF Len(s) % 2 # 0 \/ \E i \in 1..Len(s) : HexVal(s[i]) < 0 THEN Err(<<"FromHex">>)
    ELSE Ok([i \in 1..(Len(s) \div 2) |-> 16 * HexVal(s[2 * i - 1]) + HexVal(s[2 * i])])

to_lower_hex(bytes) ==
    [i \in 1..(2 * Len(bytes)) |->
        IF i % 2 = 1 THEN HexChar(bytes[(i + 1) \div 2] \div 16)
        ELSE HexChar(bytes[i \div 2] % 16)]

\* padded_hex_from_str with the '0' characters put after the text
\* ({s:0<width$}).
padded_hex_right(s, n) ==
    LET padded == IF Len(s) >= 2 * n THEN s
                  ELSE s \o [i \in 1..(2 * n - Len(s)) |-> 48]
        d == hex_decode(padded)
    IN  IF IsOk(d) /\ Len(d[2]) = n THEN d ELSE Err(<<"FromHex">>)

\* utils::padded_hex_from_str: pad on the left with '0' to 2n characters
\* (a longer string is left as it is), then hex::decode_to_slice into n bytes.
padded_hex_from_str(s, n) ==
    LET padded == IF Len(s) >= 2 * n THEN s
                  ELSE [i \in 1..(2 * n - Len(s)) |-> 48] \o s
        d == hex_decode(padded)
    IN  IF IsOk(d) /\ Len(d[2]) = n THEN d ELSE Err(<<"FromHex">>)

\* stellar_strkey::ed25519::PublicKey: the text form of a 32-byte key. The
\* key of all zeros and its text (the default source account of Spec::run).
ZeroKey == [i \in 1..32 |-> 0]
ZeroKeyText ==
    <<71>> \o [i \in 1..52 |-> 65] \o <<87, 72, 70>>

PublicKey_from_string(s) == IF s = ZeroKeyText THEN Ok(ZeroKey) ELSE Err(<<"Strkey">>)

PublicKey_to_string(key) == IF key = ZeroKey THEN ZeroKeyText ELSE <<71>> \o to_lower_hex(key)

\* u128::from_str and i128::from_str (also the narrower widths): an optional
\* sign, then at least one decimal digit, the value within the range.
int_from_str(s, signed, max, minMag) ==
    LET hasSign == Len(s) > 0 /\ (s[1] = 43 \/ (signed /\ s[1] = 45))
        neg == Len(s) > 0 /\ s[1] = 45
        body == IF hasSign THEN Tail(s) ELSE s
        mag == StripZeros([i \in 1..Len(body) |-> body[i] - 48])
    IN  IF Len(body) = 0 \/ \E i \in 1..Len(body) : ~IsDigit(body[i]) THEN Err(<<"ParseInt">>)
        ELSE IF neg THEN
            IF MagCmp(mag, minMag) <= 0 THEN Ok(Big(mag # <<0>>, mag)) ELSE Err(<<"ParseInt">>)
        ELSE IF MagCmp(mag, max) <= 0 THEN Ok(Big(FALSE, mag)) ELSE Err(<<"ParseInt">>)

\* uN::try_from / iN::try_from on an integer already known to fit 64 bits.
int_try_from(big, max, minMag) ==
    IF big[1] THEN (IF MagCmp(big[2], minMag) <= 0 THEN Ok(big) ELSE Err(<<"TryFromInt">>))
    ELSE IF MagCmp(big[2], max) <= 0 THEN Ok(big) ELSE Err(<<"TryFromInt">>)

(***************************************************************************)
(* The derived Ord of ScVal (variant order of the XDR definition, then the  *)
(* payload) and ScMap::sorted_from. 128-bit integers compare numerically,   *)
(* which is the derived order for the non-negative values below 2^64.       *)
(***************************************************************************)
ScValRank(tag) ==
    CASE tag = "U63" -> 0 [] tag = "U32" -> 1 [] tag = "I32" -> 2 [] tag = "Static" -> 3
      [] tag = "Object" -> 4 [] tag = "Symbol" -> 5 [] tag = "Bitset" -> 6 [] tag = "Status" -> 7

ScStaticRank(s) ==
    CASE s = "Void" -> 0 [] s = "True" -> 1 [] s = "False" -> 2 [] s = "LedgerKeyContractCode" -> 3

ScObjectRank(tag) ==
    CASE tag = "Vec" -> 0 [] tag = "Map" -> 1 [] tag = "U64" -> 2 [] tag = "I64" -> 3
      [] tag = "U128" -> 4 [] tag = "I128" -> 5 [] tag = "Bytes" -> 6
      [] tag = "ContractCode" -> 7 [] tag = "AccountId" -> 8

IntCmp(a, b) == IF a < b THEN -1 ELSE IF a > b THEN 1 ELSE 0

RECURSIVE ScValCmp(_, _), ScObjectCmp(_, _), ScVecCmp(_, _, _), ScMapCmp(_, _, _)
ScValCmp(a, b) ==
    IF a[1] # b[1] THEN IntCmp(ScValRank(a[1]), ScValRank(b[1]))
    ELSE CASE a[1] \in {"U63", "U32", "I32", "Bitset", "Status"} -> BigCmp(a[2], b[2])
           [] a[1] = "Static" -> IntCmp(ScStaticRank(a[2]), ScStaticRank(b[2]))
           [] a[1] = "Symbol" -> LexCmp(a[2], b[2])
           [] a[1] = "Object" ->
                IF a[2][1] = "None" /\ b[2][1] = "None" THEN 0
                ELSE IF a[2][1] = "None" THEN -1
                ELSE IF b[2][1] = "None" THEN 1
                ELSE ScObjectCmp(a[2][2], b[2][2])

ScObjectCmp(a, b) ==
    IF a[1] # b[1] THEN IntCmp(ScObjectRank(a[1]), ScObjectRank(b[1]))
    ELSE CASE a[1] = "Vec" -> ScVecCmp(a[2], b[2], 1)
           [] a[1] = "Map" -> ScMapCmp(a[2], b[2], 1)
           [] a[1] \in {"U64", "I64", "U128", "I128"} -> BigCmp(a[2], b[2])
           [] a[1] \in {"Bytes", "AccountId", "ContractCode"} -> LexCmp(a[2], b[2])

ScVecCmp(a, b, i) ==
    IF i > Len(a) /\ i > Len(b) THEN 0
    ELSE IF i > Len(a) THEN -1
    ELSE IF i > Len(b) THEN 1
    ELSE LET c == ScValCmp(a[i], b[i]) IN IF c # 0 THEN c ELSE ScVecCmp(a, b, i + 1)

ScMapCmp(a, b, i) ==
    IF i > Len(a) /\ i > Len(b) THEN 0
    ELSE IF i > Len(a) THEN -1
    ELSE IF i > Len(b) THEN 1
    ELSE LET k == ScValCmp(a[i][1], b[i][1])
             v == ScValCmp(a[i][2], b[i][2])
         IN  IF k # 0 THEN k ELSE IF v # 0 THEN v ELSE ScMapCmp(a, b, i + 1)

\* v.sort_by(|a, b| a.key.cmp(&b.key)): a stable sort by key.
RECURSIVE InsertByKey(_, _)
InsertByKey(e, sorted) ==
    IF Len(sorted) = 0 THEN <<e>>
    ELSE IF ScValCmp(e[1], sorted[1][1]) < 0 THEN <<e>> \o sorted
    ELSE <<sorted[1]>> \o InsertByKey(e, Tail(sorted))

RECURSIVE SortByKey(_)
SortByKey(entries) ==
    IF Len(entries) = 0 THEN <<>>
    ELSE InsertByKey(entries[Len(entries)], SortByKey(SubSeq(entries, 1, Len(entries) - 1)))

\* ScMap::validate: the keys strictly ascending.
ScMap_validate(entries) ==
    \A i \in 1..(Len(entries) - 1) : ScValCmp(entries[i][1], entries[i + 1][1]) < 0

\* ScMap::sorted_from without its sort: the entries as they were given.
ScMap_from_unsorted(entries) ==
    IF Len(entries) <= VecLimit THEN Ok(entries) ELSE Err(Error_Xdr)

\* ScMap::sorted_from: sort by key, bound the length, validate.
ScMap_sorted_from(entries) ==
    LET v == SortByKey(entries)
    IN  IF Len(v) <= VecLimit /\ ScMap_validate(v) THEN Ok(v) ELSE Err(Error_Xdr)

\* Vec<ScVal> -> ScVec (VecM<ScVal, 256_000>).
ScVec_try_from(items) == IF Len(items) <= VecLimit THEN Ok(items) ELSE Err(Error_Xdr)

(***************************************************************************)
(* serde_json::from_value::<ScVal>: the derived Deserialize of ScVal, an    *)
(* externally tagged enum. Modelled for the integer and static variants and *)
(* for Object(None); the other payloads are outside the inputs used.        *)
(***************************************************************************)
serde_json_from_value(raw) ==
    IF raw[1] = "Object" /\ Cardinality(DOMAIN raw[2]) = 1 THEN
        LET k == CHOOSE x \in DOMAIN raw[2] : TRUE
            p == raw[2][k]
            u == as_u64(p)
            i == as_i64(p)
        IN  IF k = s_u32 /\ u[1] = "Some" /\ IsOk(int_try_from(u[2], U32_MAX, <<0>>))
                THEN Ok(ScVal_U32(u[2]))
            ELSE IF k = s_i32 /\ i[1] = "Some" /\ IsOk(int_try_from(i[2], I32_MAX, I32_MIN_MAG))
                THEN Ok(ScVal_I32(i[2]))
            ELSE IF k = s_u63 /\ i[1] = "Some" THEN Ok(ScVal_U63(i[2]))
            ELSE IF k = s_static /\ p = JString(s_void) THEN Ok(ScVal_Static("Void"))
            ELSE IF k = s_static /\ p = JString(s_true) THEN Ok(ScVal_Static("True"))
            ELSE IF k = s_static /\ p = JString(s_false) THEN Ok(ScVal_Static("False"))
            ELSE IF k = s_object /\ p = JNull THEN Ok(ScVal_Object(None))
            ELSE Err(Error_Serde)
    ELSE Err(Error_Serde)

(***************************************************************************)
(* from_json_primitives                                                     *)
(***************************************************************************)
from_json_primitives(v, t) ==
    LET invalid == Err(Error_InvalidValue(Some(t)))
        tt == t[1]
        vk == v[1]
    IN  IF tt = "Bool" /\ vk = "Bool" THEN Ok(ScVal_Static(IF v[2] THEN "True" ELSE "False"))
        ELSE IF tt = "U128" /\ vk = "Number" THEN
            LET n == as_u64(v)
            IN  IF n[1] = "Some" THEN Ok(ObjVal(ScObject_U128(n[2]))) ELSE invalid
        ELSE IF tt = "I128" /\ vk = "Number" THEN
            LET n == as_i64(v)
            IN  IF n[1] = "Some" THEN Ok(ObjVal(ScObject_I128(n[2]))) ELSE invalid
        ELSE IF tt = "U128" /\ vk = "String" THEN
            LET r == int_from_str(v[2], FALSE, U128_MAX, <<0>>)
            IN  IF IsOk(r) THEN Ok(ObjVal(ScObject_U128(r[2]))) ELSE invalid
        ELSE IF tt = "I128" /\ vk = "String" THEN
            LET r == int_from_str(v[2], TRUE, I128_MAX, I128_MIN_MAG)
            IN  IF IsOk(r) THEN Ok(ObjVal(ScObject_I128(r[2]))) ELSE invalid
        ELSE IF tt = "I32" /\ vk = "Number" THEN
            LET n == as_i64(v)
            IN  IF n[1] = "Some" /\ IsOk(int_try_from(n[2], I32_MAX, I32_MIN_MAG))
                    THEN Ok(ScVal_I32(n[2]))
                ELSE invalid
        ELSE IF tt = "I64" /\ vk = "Number" THEN
            LET n == as_i64(v)
            IN  IF n[1] = "Some" THEN Ok(ObjVal(ScObject_I64(n[2]))) ELSE invalid
        ELSE IF tt = "U32" /\ vk = "Number" THEN
            LET n == as_u64(v)
            IN  IF n[1] = "Some" /\ IsOk(int_try_from(n[2], U32_MAX, <<0>>))
                    THEN Ok(ScVal_U32(n[2]))
                ELSE invalid
        ELSE IF tt = "U64" /\ vk = "Number" THEN
            LET n == as_u64(v)
            IN  IF n[1] = "Some" THEN Ok(ObjVal(ScObject_U64(n[2]))) ELSE invalid
        ELSE IF tt = "Symbol" /\ vk = "String" THEN
            IF Len(v[2]) <= SymbolLimit THEN Ok(ScVal_Symbol(v[2])) ELSE invalid
        ELSE IF tt = "AccountId" /\ vk = "String" THEN
            LET key == PublicKey_from_string(v[2])
            IN  IF IsOk(key) THEN Ok(ObjVal(ScObject_AccountId(key[2]))) ELSE invalid
        ELSE IF tt = "BytesN" /\ vk = "String" THEN
            LET key == PublicKey_from_string(v[2])
                hex == padded_hex_from_str(v[2], t[2])
            IN  IF IsOk(key) THEN Ok(ObjVal(ScObject_Bytes(key[2])))
                ELSE IF IsOk(hex) THEN Ok(ObjVal(ScObject_Bytes(hex[2])))
                ELSE invalid
        ELSE IF tt = "Bytes" /\ vk = "String" THEN
            LET b == hex_decode(v[2])
            IN  IF IsOk(b) THEN Ok(ObjVal(ScObject_Bytes(b[2]))) ELSE invalid
        ELSE IF tt \in {"Bytes", "BytesN"} /\ vk = "Array" THEN
            LET raw == v[2]
                b == Collect([i \in 1..Len(raw) |->
                        LET n == as_u64(raw[i])
                        IN  IF n[1] = "Some" /\ IsOk(int_try_from(n[2], U8_MAX, <<0>>))
                                THEN Ok(MagVal(n[2][2]))
                            ELSE invalid])
            IN  IF ~IsOk(b) THEN b
                ELSE IF Len(b[2]) <= VecLimit THEN Ok(ObjVal(ScObject_Bytes(b[2])))
                ELSE Err(Error_Xdr)
        ELSE serde_json_from_value(v)

(***************************************************************************)
(* ScSpecEntry and struct Spec(Option<Vec<ScSpecEntry>>). In the operators  *)
(* below `self` is the Spec value: None, or Some(entries).                  *)
(***************************************************************************)
FunctionV0(name, inputs, outputs) == <<"FunctionV0", name, inputs, outputs>>
UdtStructV0(name, fields) == <<"UdtStructV0", name, fields>>
UdtUnionV0(name, cases) == <<"UdtUnionV0", name, cases>>
UdtEnumV0(name, cases) == <<"UdtEnumV0", name, cases>>
UdtErrorEnumV0(name, cases) == <<"UdtErrorEnumV0", name, cases>>

\* Spec::find with the search run from the end: the last entry with the name.
find_last(self, name) ==
    IF self[1] = "Some" /\ \E i \in 1..Len(self[2]) : self[2][i][2] = name
        THEN Ok(self[2][CHOOSE i \in 1..Len(self[2]) :
                    /\ self[2][i][2] = name
                    /\ \A j \in (i + 1)..Len(self[2]) : self[2][j][2] # name])
    ELSE Err(Error_MissingEntry(name))

\* Spec::find: the first entry with the name.
find(self, name) ==
    IF self[1] = "Some" /\ \E i \in 1..Len(self[2]) : self[2][i][2] = name
        THEN Ok(self[2][CHOOSE i \in 1..Len(self[2]) :
                    /\ self[2][i][2] = name
                    /\ \A j \in 1..(i - 1) : self[2][j][2] # name])
    ELSE Err(Error_MissingEntry(name))

\* Spec::find_function
find_function(self, name) ==
    LET e == find(self, name)
    IN  IF ~IsOk(e) THEN e
        ELSE IF e[2][1] = "FunctionV0" THEN e
        ELSE Err(Error_MissingEntry(name))

\* parse_const_enum without the search of the declared cases: every u32 is
\* taken.
parse_const_enum_unchecked(num, enum_) ==
    LET n == as_u64(num)
    IN  IF n[1] # "Some" THEN Err(Error_Unknown)
        ELSE IF ~IsOk(int_try_from(n[2], U32_MAX, <<0>>)) THEN Err(Error_EnumConstTooLarge(n[2]))
        ELSE Ok(ScVal_U32(n[2]))

\* parse_const_enum
parse_const_enum(num, enum_) ==
    LET n == as_u64(num)
        cases == enum_[3]
    IN  IF n[1] # "Some" THEN Err(Error_Unknown)
        ELSE IF ~IsOk(int_try_from(n[2], U32_MAX, <<0>>)) THEN Err(Error_EnumConstTooLarge(n[2]))
        ELSE IF \E i \in 1..Len(cases) : cases[i][2] = n[2]
            THEN Ok(ScVal_U32(cases[CHOOSE i \in 1..Len(cases) : cases[i][2] = n[2]][2]))
        ELSE Err(Error_EnumConst(n[2]))

(***************************************************************************)
(* Spec::from_string, Spec::from_json and the parse_* methods               *)
(*                                                                         *)
(* The tails of the methods, after their recursive conversions, are        *)
(* operators of the converted Results.                                      *)
(***************************************************************************)
\* ScVal::Object(Some(ScObject::Vec(items?.try_into().map_err(Error::Xdr)?)))
sc_vec_object(items) ==
    IF ~IsOk(items) THEN items
    ELSE IF ~IsOk(ScVec_try_from(items[2])) THEN Err(Error_Xdr)
    ELSE Ok(ObjVal(ScObject_Vec(items[2])))

\* ScMap::sorted_from(sorted)?, wrapped in ScObject::Map.
sc_map_sorted(sorted) ==
    IF ~IsOk(sorted) THEN sorted ELSE Ok(ObjVal(ScObject_Map(sorted[2])))

\* ScVal::Object(Some(ScObject::Map(ScMap::sorted_from(parsed?)?)))
sc_map_object(parsed) ==
    IF ~IsOk(parsed) THEN parsed ELSE sc_map_sorted(ScMap_sorted_from(parsed[2]))

\* The (Option(elem), v) arm of from_json without its wrapping: the object
\* is dropped and Object(None) returned.
option_object_dropped(t, inner) ==
    IF ~IsOk(inner) THEN inner
    ELSE IF ~IsOk(ScObject_try_from(inner[2])) THEN Err(Error_InvalidValue(Some(t)))
    ELSE Ok(ScVal_Object(None))

\* The (Option(elem), v) arm of from_json, given the conversion of v under
\* the element type.
option_object(t, inner) ==
    IF ~IsOk(inner) THEN inner
    ELSE IF ~IsOk(ScObject_try_from(inner[2])) THEN Err(Error_InvalidValue(Some(t)))
    ELSE Ok(ScVal_Object(Some(ScObject_try_from(inner[2])[2])))

\* The closure of parse_strukt for the field called name, given the
\* conversion of the field's value.
strukt_entry(name, val) ==
    IF ~IsOk(val) THEN val
    ELSE IF Len(name) > SymbolLimit THEN Panic("unwrap")
    ELSE Ok(ScMapEntry(ScVal_Symbol(name), val[2]))

\* The closure of parse_map, given the conversions of the key and the value.
map_entry(key, val) ==
    IF ~IsOk(key) THEN key
    ELSE IF ~IsOk(val) THEN val
    ELSE Ok(ScMapEntry(key[2], val[2]))

\* The tail of parse_union for a case with a payload, given the conversion
\* of the payload.
union_object(enum_case, val) ==
    IF ~IsOk(val) THEN val
    ELSE IF Len(enum_case) > SymbolLimit THEN Err(Error_Xdr)
    ELSE IF ~IsOk(ScVec_try_from(<<ScVal_Symbol(enum_case), val[2]>>)) THEN Err(Error_Xdr)
    ELSE Ok(ObjVal(ScObject_Vec(<<ScVal_Symbol(enum_case), val[2]>>)))

\* serde_json::from_str(s).or_else(...) of from_string: the text that is not
\* JSON is taken as a string for the types written without quotes.
from_string_raw(self, s, t) ==
    LET parsed == serde_json_from_str(s)
        entry == find(self, t[2])
    IN  IF IsOk(parsed) THEN parsed
        ELSE IF t[1] \in {"Symbol", "Bytes", "BytesN", "U128", "I128", "AccountId"}
            THEN Ok(JString(s))
        ELSE IF t[1] = "Udt" THEN
            IF ~IsOk(entry) THEN entry
            ELSE IF entry[2][1] \in {"UdtUnionV0", "UdtStructV0"} THEN Ok(JString(s))
            ELSE Err(Error_Serde)
        ELSE Err(Error_Serde)

RECURSIVE from_string(_, _, _), from_json(_, _, _), parse_udt(_, _, _),
          parse_tuple_strukt(_, _, _), parse_strukt(_, _, _), parse_union(_, _, _),
          parse_tuple(_, _, _, _), parse_map(_, _, _)

from_string(self, s, t) ==
    IF t[1] = "Option" THEN
        IF s = s_null THEN Ok(ScVal_Static("Void")) ELSE from_string(self, s, t[2])
    ELSE
        LET raw == from_string_raw(self, s, t)
        IN  IF IsOk(raw) THEN from_json(self, raw[2], t) ELSE raw

from_json(self, v, t) ==
    IF t[1] \in PrimitiveTypeTags THEN from_json_primitives(v, t)
    ELSE IF t[1] = "Vec" /\ v[1] = "Array" THEN
        sc_vec_object(Collect([i \in 1..Len(v[2]) |-> from_json(self, v[2][i], t[2])]))
    ELSE IF t[1] = "Map" /\ v[1] = "Object" THEN parse_map(self, t, v[2])
    ELSE IF t[1] = "Option" /\ v[1] = "Null" THEN Ok(ScVal_Static("Void"))
    ELSE IF t[1] = "Option" THEN option_object(t, from_json(self, v, t[2]))
    ELSE IF t[1] = "Tuple" /\ v[1] = "Array" THEN parse_tuple(self, t, t[2], v[2])
    ELSE IF t[1] = "Udt" THEN parse_udt(self, t[2], v)
    ELSE serde_json_from_value(v)

parse_udt(self, name, value) ==
    LET e == find(self, name)
    IN  IF ~IsOk(e) THEN e
        ELSE IF e[2][1] = "UdtStructV0" /\ value[1] = "Object"
            THEN parse_strukt(self, e[2], value[2])
        ELSE IF e[2][1] = "UdtStructV0" /\ value[1] = "Array"
            THEN parse_tuple_strukt(self, e[2], value[2])
        ELSE IF e[2][1] = "UdtUnionV0" /\ value[1] \in {"String", "Object"}
            THEN parse_union(self, e[2], value)
        ELSE IF e[2][1] = "UdtEnumV0" /\ value[1] = "Number"
            THEN parse_const_enum(value, e[2])
        ELSE Panic("todo")

\* fields.zip(array): as many pairs as the shorter of the two.
parse_tuple_strukt(self, strukt, array) ==
    LET fields == strukt[3]
        n == IF Len(fields) < Len(array) THEN Len(fields) ELSE Len(array)
    IN  sc_vec_object(Collect([i \in 1..n |-> from_json(self, array[i], fields[i][2])]))

parse_strukt(self, strukt, map) ==
    LET fields == strukt[3]
    IN  sc_map_object(Collect([i \in 1..Len(fields) |->
            IF fields[i][1] \notin DOMAIN map THEN Err(Error_Unknown)
            ELSE strukt_entry(fields[i][1], from_json(self, map[fields[i][1]], fields[i][2]))]))

parse_union(self, union, value) ==
    IF value[1] = "String" \/ (value[1] = "Object" /\ Cardinality(DOMAIN value[2]) = 1) THEN
        LET only == CHOOSE k \in DOMAIN value[2] : TRUE
            enum_case == IF value[1] = "String" THEN value[2] ELSE only
            kind == IF value[1] = "String" THEN None ELSE Some(value[2][only])
            cases == union[3]
            c == cases[CHOOSE i \in 1..Len(cases) :
                        /\ cases[i][1] = enum_case
                        /\ \A j \in 1..(i - 1) : cases[j][1] # enum_case]
            case == c[1]
            type_ == c[2]
        IN  IF ~\E i \in 1..Len(cases) : cases[i][1] = enum_case
                THEN Err(Error_EnumCase(enum_case, union[2]))
            ELSE IF kind[1] = "Some" THEN
                IF type_[1] = "None" THEN Panic("unwrap")
                ELSE union_object(enum_case, from_json(self, kind[2], type_[2]))
            ELSE IF Len(case) > SymbolLimit THEN Err(Error_Xdr)
            ELSE Ok(ObjVal(ScObject_Vec(<<ScVal_Symbol(case)>>)))
    ELSE Panic("todo")

parse_tuple(self, t, value_types, items) ==
    IF Len(items) # Len(value_types) THEN Err(Error_InvalidValue(Some(t)))
    ELSE sc_vec_object(Collect([i \in 1..Len(items) |->
             from_json(self, items[i], value_types[i])]))

\* value_map.iter() visits the keys in ascending order.
parse_map(self, map, value_map) ==
    LET keys == SortedKeys(DOMAIN value_map)
    IN  sc_map_object(Collect([i \in 1..Len(keys) |->
            map_entry(from_string(self, keys[i], map[2]),
                      from_json(self, value_map[keys[i]], map[3]))]))

(***************************************************************************)
(* Spec::xdr_to_json and the *_to_json methods                              *)
(***************************************************************************)
\* std::str::from_utf8, for the byte strings the model uses: ASCII bytes are
\* valid, and a byte of 0x80 and above stands alone and is not.
from_utf8_ok(bytes) == \A i \in 1..Len(bytes) : bytes[i] < 128

\* iter.collect::<serde_json::Map<String, Value>>(): a later pair replaces
\* an earlier one with the same key.
RECURSIVE CollectMap(_, _)
CollectMap(pairs, i) ==
    IF i = 0 THEN EmptyMap ELSE MapInsert(CollectMap(pairs, i - 1), pairs[i][1], pairs[i][2])

RECURSIVE xdr_to_json(_, _, _), vec_m_to_json(_, _, _), sc_map_to_json(_, _, _),
          udt_to_json(_, _, _), sc_object_to_json(_, _, _)

xdr_to_json(self, res, output) ==
    IF res[1] = "Static" THEN
        IF res[2] = "True" THEN Ok(JBool(TRUE))
        ELSE IF res[2] = "False" THEN Ok(JBool(FALSE))
        ELSE IF res[2] = "Void" THEN Ok(JNull)
        ELSE Err(Error_InvalidValue(None))
    ELSE IF res[1] \in {"U63", "U32", "I32"} THEN Ok(NumberFrom(res[2]))
    ELSE IF res[1] = "Symbol" THEN
        IF from_utf8_ok(res[2]) THEN Ok(JString(res[2]))
        ELSE Err(Error_InvalidValue(Some(T_Symbol)))
    ELSE IF res[1] = "Object" /\ res[2][1] = "None" /\ output[1] = "Option" THEN Ok(JNull)
    ELSE IF res[1] = "Object" /\ res[2][1] = "Some" /\ output[1] = "Option"
        THEN sc_object_to_json(self, res[2][2], output[2])
    ELSE IF res[1] = "Object" /\ res[2][1] = "Some"
        THEN sc_object_to_json(self, res[2][2], output)
    ELSE Panic("todo")

vec_m_to_json(self, vec_m, type_) ==
    LET items == Collect([i \in 1..Len(vec_m) |-> xdr_to_json(self, vec_m[i], type_)])
    IN  IF IsOk(items) THEN Ok(JArray(items[2])) ELSE items

sc_map_to_json(self, sc_map, type_) ==
    LET pair(e) ==
            LET key == xdr_to_json(self, e[1], type_[2])
                val == xdr_to_json(self, e[2], type_[3])
            IN  IF ~IsOk(key) THEN key
                ELSE IF ~IsOk(val) THEN val
                ELSE Ok(<<JsonToString(key[2]), val[2]>>)
        v == Collect([i \in 1..Len(sc_map) |-> pair(sc_map[i])])
    IN  IF IsOk(v) THEN Ok(JObject(CollectMap(v[2], Len(v[2])))) ELSE v

\* udt_to_json with a missing payload let through: the case name alone is
\* returned when the vector has no element 1.
udt_to_json_lenient(self, name, sc_obj) ==
    LET udt == find(self, name)
    IN  IF ~IsOk(udt) THEN udt
        ELSE IF udt[2][1] = "UdtStructV0" /\ sc_obj[1] = "Map" THEN
            LET fields == udt[2][3]
                map == sc_obj[2]
                n == IF Len(fields) < Len(map) THEN Len(fields) ELSE Len(map)
                pair(i) ==
                    LET val == xdr_to_json(self, map[i][2], fields[i][2])
                    IN  IF IsOk(val) THEN Ok(<<fields[i][1], val[2]>>) ELSE val
                v == Collect([i \in 1..n |-> pair(i)])
            IN  IF IsOk(v) THEN Ok(JObject(CollectMap(v[2], Len(v[2])))) ELSE v
        ELSE IF udt[2][1] = "UdtStructV0" /\ sc_obj[1] = "Vec" THEN
            LET fields == udt[2][3]
                vec_ == sc_obj[2]
                n == IF Len(fields) < Len(vec_) THEN Len(fields) ELSE Len(vec_)
                v == Collect([i \in 1..n |-> xdr_to_json(self, vec_[i], fields[i][2])])
            IN  IF IsOk(v) THEN Ok(JArray(v[2])) ELSE v
        ELSE IF udt[2][1] = "UdtUnionV0" /\ sc_obj[1] = "Vec" THEN
            LET v == sc_obj[2]
                cases == udt[2][3]
                val == v[1]
                second_val == IF Len(v) >= 2 THEN Some(v[2]) ELSE None
                found == val[1] = "Symbol" /\ \E i \in 1..Len(cases) : cases[i][1] = val[2]
                case == cases[CHOOSE i \in 1..Len(cases) :
                            /\ cases[i][1] = val[2]
                            /\ \A j \in 1..(i - 1) : cases[j][1] # val[2]]
                case_name == case[1]
                type_ == case[2]
                payload == xdr_to_json(self, second_val[2], type_[2])
            IN  IF Len(v) = 0 THEN Panic("index")
                ELSE IF ~found THEN Err(Error_Unknown)
                ELSE IF type_[1] = "Some" THEN
                    IF second_val[1] = "None" THEN Ok(JString(case_name))
                    ELSE IF ~IsOk(payload) THEN payload
                    ELSE Ok(JObject(MapInsert(EmptyMap, case_name, payload[2])))
                ELSE Ok(JString(case_name))
        ELSE Panic("todo")

udt_to_json(self, name, sc_obj) ==
    LET udt == find(self, name)
    IN  IF ~IsOk(udt) THEN udt
        ELSE IF udt[2][1] = "UdtStructV0" /\ sc_obj[1] = "Map" THEN
            LET fields == udt[2][3]
                map == sc_obj[2]
                n == IF Len(fields) < Len(map) THEN Len(fields) ELSE Len(map)
                pair(i) ==
                    LET val == xdr_to_json(self, map[i][2], fields[i][2])
                    IN  IF IsOk(val) THEN Ok(<<fields[i][1], val[2]>>) ELSE val
                v == Collect([i \in 1..n |-> pair(i)])
            IN  IF IsOk(v) THEN Ok(JObject(CollectMap(v[2], Len(v[2])))) ELSE v
        ELSE IF udt[2][1] = "UdtStructV0" /\ sc_obj[1] = "Vec" THEN
            LET fields == udt[2][3]
                vec_ == sc_obj[2]
                n == IF Len(fields) < Len(vec_) THEN Len(fields) ELSE Len(vec_)
                v == Collect([i \in 1..n |-> xdr_to_json(self, vec_[i], fields[i][2])])
            IN  IF IsOk(v) THEN Ok(JArray(v[2])) ELSE v
        ELSE IF udt[2][1] = "UdtUnionV0" /\ sc_obj[1] = "Vec" THEN
            LET v == sc_obj[2]
                cases == udt[2][3]
                val == v[1]
                second_val == IF Len(v) >= 2 THEN Some(v[2]) ELSE None
                found == val[1] = "Symbol" /\ \E i \in 1..Len(cases) : cases[i][1] = val[2]
                case == cases[CHOOSE i \in 1..Len(cases) :
                            /\ cases[i][1] = val[2]
                            /\ \A j \in 1..(i - 1) : cases[j][1] # val[2]]
                case_name == case[1]
                type_ == case[2]
                payload == xdr_to_json(self, second_val[2], type_[2])
            IN  IF Len(v) = 0 THEN Panic("index")
                ELSE IF ~found THEN Err(Error_Unknown)
                ELSE IF type_[1] = "Some" THEN
                    IF second_val[1] = "None"
                        THEN Err(Error_EnumMissingSecondValue(case_name, type_[2][1]))
                    ELSE IF ~IsOk(payload) THEN payload
                    ELSE Ok(JObject(MapInsert(EmptyMap, case_name, payload[2])))
                ELSE Ok(JString(case_name))
        ELSE Panic("todo")

sc_object_to_json(self, obj, spec_type) ==
    LET o == obj[1]
        tt == spec_type[1]
    IN  IF o = "Vec" /\ tt = "Vec" THEN vec_m_to_json(self, obj[2], spec_type[2])
        ELSE IF o \in {"Vec", "Map"} /\ tt = "Udt" THEN udt_to_json(self, spec_type[2], obj)
        ELSE IF o = "Map" /\ tt = "Map" THEN sc_map_to_json(self, obj[2], spec_type)
        ELSE IF o = "Map" /\ tt = "Set" THEN Panic("todo")
        ELSE IF o = "U64" /\ tt = "U64" THEN Ok(NumberFrom(obj[2]))
        ELSE IF o = "I64" /\ tt = "I64" THEN Ok(NumberFrom(obj[2]))
        ELSE IF o = "U128" /\ tt = "U128" THEN Ok(JString(IntToText(obj[2])))
        ELSE IF o = "I128" /\ tt = "I128" THEN Ok(JString(IntToText(obj[2])))
        ELSE IF o = "Bytes" /\ tt = "Bytes" THEN Ok(JString(to_lower_hex(obj[2])))
        ELSE IF o = "Bytes" /\ tt = "BytesN" THEN Panic("todo")
        ELSE IF o = "Bytes" /\ tt = "Udt" THEN Panic("todo")
        ELSE IF o = "ContractCode" THEN Panic("todo")
        ELSE IF o = "AccountId" /\ tt = "AccountId" THEN Ok(JString(PublicKey_to_string(obj[2])))
        ELSE Err(Error_Unknown)

(***************************************************************************)
(* Spec::encode_args and Spec::decode_args. The XDR bytes given to          *)
(* decode_args are Some(v) when they are the XDR of the ScVal v, else None. *)
(***************************************************************************)
\* encode_args with the arguments taken in the order of the keys of the JSON
\* object (args.iter()) instead of the order of func.inputs.
encode_args_by_key(self, contract_id, func_name, json_args) ==
    LET func == find_function(self, func_name)
        value == serde_json_from_str(json_args)
        args == value[2][2]
        inputs == func[2][3]
        keys == SortedKeys(DOMAIN args)
        declared(k) == \E i \in 1..Len(inputs) : inputs[i][1] = k
        arg(k) ==
            IF ~declared(k) THEN Panic("unwrap")
            ELSE from_json(self, args[k], inputs[CHOOSE i \in 1..Len(inputs) : inputs[i][1] = k][2])
        encoded_args == Collect([i \in 1..Len(keys) |-> arg(keys[i])])
        res == <<ObjVal(ScObject_Bytes(contract_id)), ScVal_Symbol(func_name)>>
                   \o encoded_args[2]
    IN  IF ~IsOk(func) THEN func
        ELSE IF ~IsOk(value) THEN Err(Error_Temp)
        ELSE IF value[2][1] # "Object" THEN Panic("unwrap")
        ELSE IF ~IsOk(encoded_args) THEN encoded_args
        ELSE Ok(res)

encode_args(self, contract_id, func_name, json_args) ==
    LET func == find_function(self, func_name)
        value == serde_json_from_str(json_args)
        args == value[2][2]
        inputs == func[2][3]
        arg(input) ==
            IF input[1] \notin DOMAIN args THEN Panic("unwrap")
            ELSE from_json(self, args[input[1]], input[2])
        encoded_args == Collect([i \in 1..Len(inputs) |-> arg(inputs[i])])
        res == <<ObjVal(ScObject_Bytes(contract_id)), ScVal_Symbol(func_name)>>
                   \o encoded_args[2]
    IN  IF ~IsOk(func) THEN func
        ELSE IF ~IsOk(value) THEN Err(Error_Temp)
        ELSE IF value[2][1] # "Object" THEN Panic("unwrap")
        ELSE IF ~IsOk(encoded_args) THEN encoded_args
        ELSE IF Len(contract_id) > VecLimit \/ Len(func_name) > SymbolLimit THEN Panic("unwrap")
        ELSE IF ~IsOk(ScVec_try_from(res)) THEN Panic("unwrap")
        ELSE Ok(res)

decode_args(self, func_name, xdr_args) ==
    LET func == find_function(self, func_name)
        outputs == func[2][4]
        value == xdr_to_json(self, xdr_args[2], outputs[1])
    IN  IF ~IsOk(func) THEN Panic("unwrap")
        ELSE IF xdr_args[1] = "None" THEN Panic("unwrap")
        ELSE IF Len(outputs) = 0 THEN Panic("index")
        ELSE IF ~IsOk(value) THEN value
        ELSE Ok(JsonToString(value[2]))

(***************************************************************************)
(* Spec::from_string_primitive: from_string on Spec::default(), the Spec    *)
(* with no entries at all.                                                  *)
(***************************************************************************)
Spec_default == None

from_string_primitive(s, t) == from_string(Spec_default, s, t)

\* utils::id_from_str::<N>
id_from_str(contract_id, n) ==
    LET r == padded_hex_from_str(contract_id, n)
    IN  IF ~IsOk(r) THEN r
        ELSE IF Len(r[2]) # n THEN Err(<<"FromHex">>)
        ELSE r

(***************************************************************************)
(* The ledger entries of utils.rs: a list of (LedgerKey, LedgerEntry). A    *)
(* LedgerEntry is its last_modified_ledger_seq and its data. Sha256::digest *)
(* is kept as a constructor over the bytes digested: equal bytes have equal *)
(* digests, and different bytes are taken to have different ones.           *)
(***************************************************************************)
LedgerKey_ContractCode(hash) == <<"ContractCode", hash>>
LedgerKey_ContractData(contract_id, key) == <<"ContractData", contract_id, key>>
LedgerKey_Account(account_id) == <<"Account", account_id>>

LedgerEntry(seq, data) == <<seq, data>>
ContractCodeEntry(code, hash) == <<"ContractCode", code, hash>>
ContractDataEntry(contract_id, key, val) == <<"ContractData", contract_id, key, val>>
AccountEntry(account_id) == <<"Account", account_id>>

ScContractCode_WasmRef(hash) == <<"WasmRef", hash>>

Sha256_digest(bytes) == <<"Sha256", bytes>>

\* utils::contract_hash: the digest of the XDR of InstallContractCodeArgs,
\* whose code is a BytesM of at most VecLimit bytes.
contract_hash(contract) ==
    IF Len(contract) > VecLimit THEN Err(Error_Xdr)
    ELSE Ok(Sha256_digest(<<"InstallContractCodeArgs", contract>>))

\* The position of the first entry of the list with the key, 0 if none.
FirstWithKey(entries, key) ==
    IF \E i \in 1..Len(entries) : entries[i][1] = key
        THEN CHOOSE i \in 1..Len(entries) :
                 /\ entries[i][1] = key
                 /\ \A j \in 1..(i - 1) : entries[j][1] # key
    ELSE 0

\* for (k, e) in entries.iter_mut() { if **k == key { **e = entry; return } }
\* entries.push((key, entry))
ReplaceOrPush(entries, key, entry, at) ==
    IF at > 0 THEN [entries EXCEPT ![at] = <<key, entry>>]
    ELSE Append(entries, <<key, entry>>)

\* The same with the search left out: the entry is always pushed.
add_contract_code_always_pushed(entries, contract) ==
    LET hash == contract_hash(contract)
    IN  IF ~IsOk(hash) THEN <<entries, hash>>
        ELSE <<Append(entries, <<LedgerKey_ContractCode(hash[2]),
                                 LedgerEntry(0, ContractCodeEntry(contract, hash[2]))>>), hash>>

\* utils::add_contract_code_to_ledger_entries: the list after the call and
\* what the call returns.
add_contract_code_to_ledger_entries(entries, contract) ==
    LET hash == contract_hash(contract)
    IN  IF ~IsOk(hash) THEN <<entries, hash>>
        ELSE <<ReplaceOrPush(entries, LedgerKey_ContractCode(hash[2]),
                             LedgerEntry(0, ContractCodeEntry(contract, hash[2])),
                             FirstWithKey(entries, LedgerKey_ContractCode(hash[2]))), hash>>

\* The same with the entry put at the front of the list when it is new.
add_contract_at_front(entries, contract_id, wasm_hash) ==
    LET key == LedgerKey_ContractData(contract_id, ScVal_Static("LedgerKeyContractCode"))
        entry == LedgerEntry(0, ContractDataEntry(contract_id, ScVal_Static("LedgerKeyContractCode"),
                     ObjVal(ScObject_ContractCode(ScContractCode_WasmRef(wasm_hash)))))
    IN  IF FirstWithKey(entries, key) > 0
            THEN ReplaceOrPush(entries, key, entry, FirstWithKey(entries, key))
        ELSE <<<<key, entry>>>> \o entries

\* utils::add_contract_to_ledger_entries: the list after the call.
add_contract_to_ledger_entries(entries, contract_id, wasm_hash) ==
    ReplaceOrPush(entries,
        LedgerKey_ContractData(contract_id, ScVal_Static("LedgerKeyContractCode")),
        LedgerEntry(0, ContractDataEntry(contract_id, ScVal_Static("LedgerKeyContractCode"),
            ObjVal(ScObject_ContractCode(ScContractCode_WasmRef(wasm_hash))))),
        FirstWithKey(entries,
            LedgerKey_ContractData(contract_id, ScVal_Static("LedgerKeyContractCode"))))

\* The source account pushed whether or not an entry has its key.
add_source_account_unconditional(entries) ==
    Append(entries, <<LedgerKey_Account(ZeroKey), LedgerEntry(0, AccountEntry(ZeroKey))>>)

\* Spec::run: the default source account is pushed when no entry has its key.
add_source_account(entries) ==
    IF \E i \in 1..Len(entries) : entries[i][1] = LedgerKey_Account(ZeroKey) THEN entries
    ELSE Append(entries, <<LedgerKey_Account(ZeroKey), LedgerEntry(0, AccountEntry(ZeroKey))>>)

(***************************************************************************)
(* The contract schema used: two functions (one whose inputs are declared   *)
(* out of alphabetical order), a struct declared out of alphabetical order, *)
(* a struct declared in order, a union with and without payload, a const    *)
(* enum and an error enum.                                                  *)
(***************************************************************************)
Entries ==
    << FunctionV0(s_hello, << <<s_to, T_Symbol>> >>, << T_Vec(T_Symbol) >>),
       FunctionV0(s_add, << <<s_b, T_U32>>, <<s_a, T_Symbol>> >>, << T_Symbol >>),
       FunctionV0(s_x, <<>>, <<>>),
       UdtStructV0(s_Pt, << <<s_b, T_U32>>, <<s_a, T_Symbol>> >>),
       UdtStructV0(s_Pair, << <<s_a, T_U32>>, <<s_b, T_U64>> >>),
       UdtUnionV0(s_Color, << <<s_Red, None>>, <<s_Named, Some(T_Symbol)>> >>),
       UdtEnumV0(s_Status, << <<s_Ok, Nat2Big(0)>>, <<s_Err, Nat2Big(1)>> >>),
       UdtErrorEnumV0(s_Missing, << <<s_Err, Nat2Big(1)>> >>),
       UdtEnumV0(s_hello, << <<s_Ok, Nat2Big(0)>> >>) >>

Contract == Some(Entries)

(***************************************************************************)
(* Inputs. The values are drawn per type: MaxLen bounds the length of a     *)
(* top-level vector, map or JSON container, and a container nested in it    *)
(* is one shorter. Scalars inside containers come from two values each;     *)
(* top-level scalars add the boundary values of their range.                *)
(***************************************************************************)
MaxLen == 2
MaxSteps == 2

N(n) == JPosInt(MagOf(n))
Obj1(k, v) == JObject(MapInsert(EmptyMap, k, v))
Obj2(k1, v1, k2, v2) == JObject(MapInsert(MapInsert(EmptyMap, k1, v1), k2, v2))

SeqsUpTo(S, n) == UNION {[1..k -> S] : k \in 0..n}

\* The sequences s with s[i] drawn from sets[i].
ProductSeqs(sets) ==
    {s \in [1..Len(sets) -> UNION {sets[i] : i \in 1..Len(sets)}] :
        \A i \in 1..Len(sets) : s[i] \in sets[i]}

SubsetsUpTo(S, n) == {K \in SUBSET S : Cardinality(K) <= n}

RECURSIVE SetToSeq(_)
SetToSeq(S) == IF S = {} THEN <<>> ELSE LET x == CHOOSE y \in S : TRUE IN <<x>> \o SetToSeq(S \ {x})

\* The maps over at most n of the keys K with values in V, sorted by key.
SortedMaps(K, V, n) ==
    UNION {{SortByKey([i \in 1..Len(SetToSeq(Ks)) |-> <<SetToSeq(Ks)[i], f[SetToSeq(Ks)[i]]>>]) :
                f \in [Ks -> V]} : Ks \in SubsetsUpTo(K, n)}

\* The JSON objects over at most n of the keys K with values in V.
JsonObjects(K, V, n) == UNION {{JObject(f) : f \in [Ks -> V]} : Ks \in SubsetsUpTo(K, n)}

Dec(n) == IF n > 0 THEN n - 1 ELSE 0

Types ==
    { T_Bool, T_U32, T_I32, T_U64, T_I64, T_U128, T_I128, T_Symbol, T_AccountId, T_Bytes,
      T_BytesN(2),
      T_Vec(T_Symbol), T_Vec(T_Map(T_Symbol, T_U32)),
      T_Map(T_Symbol, T_U32), T_Map(T_U32, T_Symbol), T_Map(T_Symbol, T_Udt(s_Pt)),
      T_Tuple(<<T_U32, T_Symbol>>),
      T_Option(T_Bool), T_Option(T_U32), T_Option(T_I32), T_Option(T_Symbol),
      T_Option(T_U64), T_Option(T_Udt(s_Status)), T_Option(T_Udt(s_Color)),
      T_Option(T_Vec(T_Symbol)), T_Option(T_Option(T_U64)),
      T_Udt(s_Pt), T_Udt(s_Pair), T_Udt(s_Color), T_Udt(s_Status), T_Udt(s_Missing),
      T_Udt(s_hello), T_Udt(s_c),
      T_Bitset, T_Status, T_Result(T_U32, T_Status), T_Set(T_U32) }

\* The ScVal values that are in the domain of a type (section 3.3 of the
\* format: the shapes the encoder is to produce), over the contract schema.
RECURSIVE Values(_, _, _)
Values(t, n, rich) ==
    LET tt == t[1]
        e == find(Contract, t[2])
        fieldSets(fields) == [i \in 1..Len(fields) |-> Values(fields[i][2], Dec(n), FALSE)]
    IN  IF tt = "Bool" THEN {ScVal_Static("True"), ScVal_Static("False")}
        ELSE IF tt = "U32" THEN
            {ScVal_U32(Nat2Big(1)), ScVal_U32(Nat2Big(2))}
                \cup (IF rich THEN {ScVal_U32(Nat2Big(0)), ScVal_U32(Big(FALSE, U32_MAX))} ELSE {})
        ELSE IF tt = "I32" THEN
            {ScVal_I32(Nat2Big(1)), ScVal_I32(Big(TRUE, <<1>>))}
                \cup (IF rich THEN {ScVal_I32(Big(TRUE, I32_MIN_MAG))} ELSE {})
        ELSE IF tt = "U64" THEN
            {ObjVal(ScObject_U64(Nat2Big(1)))}
                \cup (IF rich THEN {ObjVal(ScObject_U64(Big(FALSE, U64_MAX)))} ELSE {})
        ELSE IF tt = "I64" THEN
            {ObjVal(ScObject_I64(Big(TRUE, <<1>>)))}
                \cup (IF rich THEN {ObjVal(ScObject_I64(Big(TRUE, I64_MIN_MAG)))} ELSE {})
        ELSE IF tt = "U128" THEN
            {ObjVal(ScObject_U128(Nat2Big(1)))}
                \cup (IF rich THEN {ObjVal(ScObject_U128(Big(FALSE, U128_MAX)))} ELSE {})
        ELSE IF tt = "I128" THEN
            {ObjVal(ScObject_I128(Big(TRUE, <<1>>)))}
                \cup (IF rich THEN {ObjVal(ScObject_I128(Big(FALSE, I128_MAX)))} ELSE {})
        ELSE IF tt = "Symbol" THEN
            {ScVal_Symbol(s_a), ScVal_Symbol(s_x)}
                \cup (IF rich THEN {ScVal_Symbol(s_world)} ELSE {})
        ELSE IF tt = "AccountId" THEN {ObjVal(ScObject_AccountId(ZeroKey))}
        ELSE IF tt = "Bytes" THEN
            {ObjVal(ScObject_Bytes(<<>>)), ObjVal(ScObject_Bytes(<<171, 1>>))}
        ELSE IF tt = "BytesN" THEN
            {ObjVal(ScObject_Bytes([i \in 1..t[2] |-> i])), ObjVal(ScObject_Bytes([i \in 1..t[2] |-> 0]))}
        ELSE IF tt = "Vec" THEN
            {ObjVal(ScObject_Vec(s)) : s \in SeqsUpTo(Values(t[2], Dec(n), FALSE), n)}
        ELSE IF tt = "Map" THEN
            {ObjVal(ScObject_Map(m)) :
                m \in SortedMaps(Values(t[2], Dec(n), FALSE), Values(t[3], Dec(n), FALSE), n)}
        ELSE IF tt = "Tuple" THEN
            {ObjVal(ScObject_Vec(s)) :
                s \in ProductSeqs([i \in 1..Len(t[2]) |-> Values(t[2][i], Dec(n), FALSE)])}
        ELSE IF tt = "Option" THEN
            {ScVal_Static("Void"), ScVal_Object(None)}
                \cup {v \in Values(t[2], n, rich) : v[1] = "Object" /\ v[2][1] = "Some"}
        ELSE IF tt = "Udt" /\ IsOk(e) /\ e[2][1] = "UdtStructV0" THEN
            {ObjVal(ScObject_Map(SortByKey([i \in 1..Len(s) |->
                    ScMapEntry(ScVal_Symbol(e[2][3][i][1]), s[i])]))) :
                s \in ProductSeqs(fieldSets(e[2][3]))}
            \cup {ObjVal(ScObject_Vec(s)) : s \in ProductSeqs(fieldSets(e[2][3]))}
        ELSE IF tt = "Udt" /\ IsOk(e) /\ e[2][1] = "UdtUnionV0" THEN
            UNION {IF e[2][3][i][2][1] = "None"
                       THEN {ObjVal(ScObject_Vec(<<ScVal_Symbol(e[2][3][i][1])>>))}
                   ELSE {ObjVal(ScObject_Vec(<<ScVal_Symbol(e[2][3][i][1]), p>>)) :
                            p \in Values(e[2][3][i][2][2], Dec(n), FALSE)} :
                   i \in 1..Len(e[2][3])}
        ELSE IF tt = "Udt" /\ IsOk(e) /\ e[2][1] = "UdtEnumV0" THEN
            {ScVal_U32(e[2][3][i][2]) : i \in 1..Len(e[2][3])}
        ELSE {}

\* ScVal values given to the decoder that are not in the domain of the type.
OtherValues ==
    { ScVal_U32(Nat2Big(2)), ScVal_U32(Nat2Big(7)), ScVal_Static("Void"),
      ScVal_Static("LedgerKeyContractCode"), ScVal_Object(None), ScVal_Symbol(s_Red),
      ScVal_Symbol(<<255>>), ScVal_U63(Nat2Big(5)), ScVal_Bitset(Nat2Big(1)),
      ScVal_Status(Nat2Big(0)), ObjVal(ScObject_ContractCode(<<0>>)),
      ObjVal(ScObject_Vec(<<>>)), ObjVal(ScObject_Vec(<<ScVal_Symbol(s_Named)>>)),
      ObjVal(ScObject_Vec(<<ScVal_Symbol(s_blue)>>)), ObjVal(ScObject_Vec(<<ScVal_U32(Nat2Big(1))>>)),
      ObjVal(ScObject_Map(<<>>)), ObjVal(ScObject_Bytes(<<1>>)), ObjVal(ScObject_U64(Nat2Big(1))) }

\* The texts of the keys of a JSON object given for a map with key type t.
KeyTexts(t, rich) ==
    IF t[1] = "Symbol" THEN {s_a, s_b} \cup (IF rich THEN {Quote(s_a)} ELSE {})
    ELSE IF t[1] = "U32" THEN
        {<<49>>, <<50>>} \cup (IF rich THEN {<<49, 32>>, <<49, 48>>, s_a} ELSE {})
    ELSE {s_a}

\* The JSON values written for a type.
RECURSIVE Jsons(_, _, _)
Jsons(t, n, rich) ==
    LET tt == t[1]
        e == find(Contract, t[2])
        fieldSets(fields) == [i \in 1..Len(fields) |-> Jsons(fields[i][2], Dec(n), FALSE)]
        fieldNames(fields) == {fields[i][1] : i \in 1..Len(fields)}
        fieldJsons(fields) == UNION {Jsons(fields[i][2], Dec(n), FALSE) : i \in 1..Len(fields)}
    IN  IF tt = "Bool" THEN {JBool(TRUE), JBool(FALSE)}
        ELSE IF tt \in {"U32", "U64"} THEN
            {N(1), N(2)} \cup (IF rich THEN {N(0), JPosInt(U32_MAX), JPosInt(U64_MAX)} ELSE {})
        ELSE IF tt \in {"I32", "I64"} THEN
            {N(1), JNegInt(<<1>>)}
                \cup (IF rich THEN {JNegInt(I32_MIN_MAG), JNegInt(I64_MIN_MAG)} ELSE {})
        ELSE IF tt = "U128" THEN
            {N(1), JString(<<50>>)}
                \cup (IF rich THEN {JString(DigitsToText(U128_MAX)), JString(<<48, 48, 55>>),
                                    JString(<<43, 53>>)}
                      ELSE {})
        ELSE IF tt = "I128" THEN
            {JNegInt(<<1>>), JString(<<45, 50>>)}
                \cup (IF rich THEN {JString(DigitsToText(I128_MAX)), JString(<<45, 48>>)} ELSE {})
        ELSE IF tt = "Symbol" THEN
            {JString(s_a), JString(s_x)} \cup (IF rich THEN {JString(s_world)} ELSE {})
        ELSE IF tt = "AccountId" THEN {JString(ZeroKeyText)}
        ELSE IF tt = "Bytes" THEN
            {JString(<<>>), JString(<<97, 98, 48, 49>>), JString(<<65, 66, 48, 49>>),
             JArray(<<N(171), N(1)>>)}
        ELSE IF tt = "BytesN" THEN
            {JString(<<48, 49, 48, 50>>), JString(<<49>>), JArray(<<N(1), N(2)>>),
             JArray(<<N(1)>>), JString(ZeroKeyText)}
        ELSE IF tt = "Vec" THEN {JArray(s) : s \in SeqsUpTo(Jsons(t[2], Dec(n), FALSE), n)}
        ELSE IF tt = "Map" THEN
            JsonObjects(KeyTexts(t[2], rich), Jsons(t[3], Dec(n), FALSE), n)
        ELSE IF tt = "Tuple" THEN
            {JArray(s) : s \in ProductSeqs([i \in 1..Len(t[2]) |-> Jsons(t[2][i], Dec(n), FALSE)])}
        ELSE IF tt = "Option" THEN {JNull} \cup Jsons(t[2], n, rich)
        ELSE IF tt = "Udt" /\ IsOk(e) /\ e[2][1] = "UdtStructV0" THEN
            {JObject([k \in fieldNames(e[2][3]) |->
                    s[CHOOSE i \in 1..Len(s) : e[2][3][i][1] = k]]) :
                s \in ProductSeqs(fieldSets(e[2][3]))}
            \cup {JArray(s) : s \in ProductSeqs(fieldSets(e[2][3]))}
            \cup (IF rich
                  THEN JsonObjects(fieldNames(e[2][3]) \cup {s_c}, fieldJsons(e[2][3]), n + 1)
                       \cup {JArray(s) : s \in SeqsUpTo(fieldJsons(e[2][3]), n + 1)}
                  ELSE {})
        ELSE IF tt = "Udt" /\ IsOk(e) /\ e[2][1] = "UdtUnionV0" THEN
            UNION {{JString(e[2][3][i][1])}
                   \cup (IF e[2][3][i][2][1] = "None" THEN {}
                         ELSE {Obj1(e[2][3][i][1], p) :
                                  p \in Jsons(e[2][3][i][2][2], Dec(n), FALSE)}) :
                   i \in 1..Len(e[2][3])}
        ELSE IF tt = "Udt" /\ IsOk(e) /\ e[2][1] = "UdtEnumV0" THEN
            {NumberFrom(e[2][3][i][2]) : i \in 1..Len(e[2][3])}
        ELSE {}

\* JSON values given whatever the type.
OtherJsons ==
    { JNull, JBool(TRUE), N(0), N(1), N(2), JPosInt(<<4, 2, 9, 4, 9, 6, 7, 2, 9, 6>>),
      JPosInt(U64_MAX), JNegInt(<<1>>), JFloat(<<49, 46, 53>>),
      JString(s_a), JString(s_Red), JString(s_Named), JString(s_blue), JString(<<49>>),
      JString(<<103>>), JString(s_hello \o s_world \o s_x),
      JArray(<<>>), JArray(<<N(1)>>), JArray(<<N(1), JString(s_a)>>), JArray(<<N(256)>>),
      JObject(EmptyMap), Obj1(s_Red, JString(s_blue)), Obj1(s_Named, N(1)),
      Obj1(s_blue, JString(s_a)), Obj2(s_Red, JString(s_a), s_Named, JString(s_a)),
      Obj1(s_a, N(1)), Obj1(s_u32, N(5)), Obj1(s_static, JString(s_void)),
      Obj1(s_object, JNull) }

JsonInputs == {<<"json", t, j>> : t \in Types, j \in OtherJsons}
                  \cup UNION {{<<"json", t, j>> : j \in Jsons(t, MaxLen, TRUE)} : t \in Types}

InDomainInputs == UNION {{<<"scval", t, v>> : v \in Values(t, MaxLen, TRUE)} : t \in Types}

ScValInputs == InDomainInputs \cup {<<"scval", t, v>> : t \in Types, v \in OtherValues}

\* Argument texts for encode_args, written out with their keys in both orders.
ArgTexts ==
    { JsonToString(Obj1(s_to, JString(s_world))),
      JsonToString(Obj2(s_to, JString(s_world), s_c, N(1))),
      <<123>> \o Quote(s_b) \o <<58, 49, 44>> \o Quote(s_a) \o <<58>> \o Quote(s_x) \o <<125>>,
      <<123>> \o Quote(s_a) \o <<58>> \o Quote(s_x) \o <<44, 32>> \o Quote(s_b) \o <<58, 32, 50, 125>>,
      JsonToString(Obj2(s_a, N(1), s_b, JString(s_x))),
      <<123>> \o Quote(s_a) \o <<58>> \o Quote(s_x) \o <<44>> \o Quote(s_c) \o <<58, 49, 44>>
          \o Quote(s_b) \o <<58, 50, 125>>,
      JsonToString(Obj1(s_b, N(1))),
      JsonToString(JObject(EmptyMap)),
      JsonToString(JArray(<<N(1)>>)),
      s_null,
      <<123>>,
      s_to }

ContractIds == {ZeroKey, [i \in 1..32 |-> IF i = 32 THEN 1 ELSE 0]}

FuncNames == {s_hello, s_add, s_x, s_Pt, s_to}

ArgsInputs == {<<"args", c, f, a>> : c \in ContractIds, f \in FuncNames, a \in ArgTexts}

XdrInputs ==
    {<<"xdr", f, x>> :
        f \in FuncNames,
        x \in {None, Some(ScVal_Symbol(s_world)), Some(ScVal_U32(Nat2Big(1))),
               Some(ObjVal(ScObject_Vec(<<ScVal_Symbol(s_hello), ScVal_Symbol(s_world)>>)))}}

\* The types and the texts given to from_string and from_string_primitive.
TextTypes ==
    { T_Bool, T_U32, T_U128, T_Symbol, T_Bytes, T_BytesN(2), T_Vec(T_Symbol),
      T_Option(T_U32), T_Option(T_U64), T_Option(T_Symbol), T_Option(T_Vec(T_Symbol)),
      T_Option(T_Udt(s_Status)), T_Option(T_Udt(s_Color)),
      T_Vec(T_Udt(s_Pt)), T_Map(T_Symbol, T_Udt(s_Pt)), T_Tuple(<<T_U32, T_Udt(s_Status)>>),
      T_Udt(s_Pt), T_Udt(s_Color), T_Udt(s_Status) }

Texts ==
    { s_null, s_true, <<49>>, <<48, 49>>, s_a, Quote(s_a), s_Red, Quote(s_Red),
      JsonToString(JArray(<<>>)), JsonToString(JArray(<<N(1)>>)),
      JsonToString(JArray(<<N(1), N(0)>>)), JsonToString(JArray(<<JString(s_a)>>)),
      JsonToString(JObject(EmptyMap)),
      JsonToString(Obj2(s_a, JString(s_x), s_b, N(1))),
      JsonToString(Obj1(s_Named, JString(s_a))),
      <<123>> }

TextInputs == {<<"text", t, s>> : t \in TextTypes, s \in Texts}

\* The names looked up with find and find_function.
Names == FuncNames \cup {s_Pair, s_Color, s_Status, s_Missing, s_c, <<>>}

FindInputs == {<<"find", name>> : name \in Names}

\* The texts and the widths given to padded_hex_from_str and id_from_str.
HexTexts ==
    { <<>>, <<49>>, <<48, 49>>, <<97, 98>>, <<65, 98>>, <<48, 49, 48, 50>>, <<49, 48, 50>>,
      <<48, 48, 48, 49>>, <<48, 48, 48, 48, 49>>, <<49, 48, 50, 48, 51>>, <<103>>, <<49, 103>>,
      <<32, 49>>, <<43, 49>>, [i \in 1..64 |-> IF i % 2 = 0 THEN 102 ELSE 55],
      [i \in 1..65 |-> 48], [i \in 1..66 |-> 49] }

HexWidths == {0, 1, 2, 32}

HexInputs == {<<"hex", s, n>> : s \in HexTexts, n \in HexWidths}

\* The contract codes, the contract ids and the code hashes given to the
\* calls on the ledger entries.
Wasms == {<<0, 97, 115, 109>>, <<1>>}

WasmHashes == {contract_hash(w)[2] : w \in Wasms}

LedgerInputs == {<<"ledger">>}

Inputs ==
    JsonInputs \cup ScValInputs \cup ArgsInputs \cup XdrInputs \cup TextInputs
        \cup FindInputs \cup HexInputs \cup LedgerInputs

(***************************************************************************)
(* The state: the schema, the input given, the declared type in use, the    *)
(* JSON value and the ScVal at hand, the operations applied so far and the  *)
(* result of the last one.                                                  *)
(***************************************************************************)
VARIABLES schema, input, typ, json, scval, trace, result, ledger_entries, call, call_prev

vars == <<schema, input, typ, json, scval, trace, result, ledger_entries, call, call_prev>>

\* The ledger entries, the last call on them (its name, its arguments, the
\* list before it and what it returned) and the call before that one.
ledger == <<ledger_entries, call, call_prev>>

Init ==
    /\ input \in Inputs
    /\ schema \in (IF input[1] = "find" THEN {Contract, Spec_default} ELSE {Contract})
    /\ typ = IF input[1] \in {"json", "scval", "text"} THEN Some(input[2]) ELSE None
    /\ json = IF input[1] = "json" THEN Some(input[3]) ELSE None
    /\ scval = IF input[1] = "scval" THEN Some(input[3]) ELSE None
    /\ trace = <<>>
    /\ result = None
    /\ ledger_entries = <<>>
    /\ call = None
    /\ call_prev = None

CanStep == Len(trace) < MaxSteps /\ (result = None \/ IsOk(result))

\* Spec::from_json applied to the JSON value at hand.
FromJson ==
    /\ CanStep
    /\ json[1] = "Some" /\ typ[1] = "Some"
    /\ LET r == from_json(schema, json[2], typ[2])
       IN  /\ result' = r
           /\ scval' = IF IsOk(r) THEN Some(r[2]) ELSE None
    /\ trace' = Append(trace, "from_json")
    /\ UNCHANGED <<schema, input, typ, json, ledger>>

\* Spec::xdr_to_json applied to the ScVal at hand.
XdrToJson ==
    /\ CanStep
    /\ scval[1] = "Some" /\ typ[1] = "Some"
    /\ LET r == xdr_to_json(schema, scval[2], typ[2])
       IN  /\ result' = r
           /\ json' = IF IsOk(r) THEN Some(r[2]) ELSE None
    /\ trace' = Append(trace, "xdr_to_json")
    /\ UNCHANGED <<schema, input, typ, scval, ledger>>

\* Spec::encode_args applied to the arguments given.
EncodeArgs ==
    /\ CanStep
    /\ input[1] = "args" /\ trace = <<>>
    /\ result' = encode_args(schema, input[2], input[3], input[4])
    /\ trace' = Append(trace, "encode_args")
    /\ UNCHANGED <<schema, input, typ, json, scval, ledger>>

\* Spec::decode_args applied to the returned bytes.
DecodeArgs ==
    /\ CanStep
    /\ input[1] = "xdr" /\ trace = <<>>
    /\ result' = decode_args(schema, input[2], input[3])
    /\ trace' = Append(trace, "decode_args")
    /\ UNCHANGED <<schema, input, typ, json, scval, ledger>>

\* Spec::from_string applied to the text given, on the contract schema.
FromString ==
    /\ CanStep
    /\ input[1] = "text" /\ trace = <<>>
    /\ LET r == from_string(schema, input[3], input[2])
       IN  /\ result' = r
           /\ scval' = IF IsOk(r) THEN Some(r[2]) ELSE None
    /\ trace' = Append(trace, "from_string")
    /\ UNCHANGED <<schema, input, typ, json, ledger>>

\* from_string_primitive applied to the text given.
FromStringPrimitive ==
    /\ CanStep
    /\ input[1] = "text" /\ trace = <<>>
    /\ LET r == from_string_primitive(input[3], input[2])
       IN  /\ result' = r
           /\ scval' = IF IsOk(r) THEN Some(r[2]) ELSE None
    /\ trace' = Append(trace, "from_string_primitive")
    /\ UNCHANGED <<schema, input, typ, json, ledger>>

\* Spec::find applied to the name given.
Find ==
    /\ CanStep
    /\ input[1] = "find" /\ trace = <<>>
    /\ result' = find(schema, input[2])
    /\ trace' = Append(trace, "find")
    /\ UNCHANGED <<schema, input, typ, json, scval, ledger>>

\* Spec::find_function applied to the name given.
FindFunction ==
    /\ CanStep
    /\ input[1] = "find" /\ trace = <<>>
    /\ result' = find_function(schema, input[2])
    /\ trace' = Append(trace, "find_function")
    /\ UNCHANGED <<schema, input, typ, json, scval, ledger>>

\* utils::padded_hex_from_str applied to the text and the width given.
PaddedHexFromStr ==
    /\ CanStep
    /\ input[1] = "hex" /\ trace = <<>>
    /\ result' = padded_hex_from_str(input[2], input[3])
    /\ trace' = Append(trace, "padded_hex_from_str")
    /\ UNCHANGED <<schema, input, typ, json, scval, ledger>>

\* utils::id_from_str applied to the text and the width given.
IdFromStr ==
    /\ CanStep
    /\ input[1] = "hex" /\ trace = <<>>
    /\ result' = id_from_str(input[2], input[3])
    /\ trace' = Append(trace, "id_from_str")
    /\ UNCHANGED <<schema, input, typ, json, scval, ledger>>

\* utils::add_contract_code_to_ledger_entries called with a contract code.
AddContractCode ==
    /\ input[1] = "ledger"
    /\ \E contract \in Wasms :
           /\ ledger_entries' = add_contract_code_to_ledger_entries(ledger_entries, contract)[1]
           /\ call' = Some(<<"add_contract_code", <<contract>>, ledger_entries,
                            add_contract_code_to_ledger_entries(ledger_entries, contract)[2]>>)
    /\ call_prev' = call
    /\ UNCHANGED <<schema, input, typ, json, scval, trace, result>>

\* utils::add_contract_to_ledger_entries called with a contract id and the
\* hash of a contract code.
AddContract ==
    /\ input[1] = "ledger"
    /\ \E contract_id \in ContractIds, wasm_hash \in WasmHashes :
           /\ ledger_entries' =
                  add_contract_to_ledger_entries(ledger_entries, contract_id, wasm_hash)
           /\ call' = Some(<<"add_contract", <<contract_id, wasm_hash>>, ledger_entries, None>>)
    /\ call_prev' = call
    /\ UNCHANGED <<schema, input, typ, json, scval, trace, result>>

\* Spec::run: the source account is added when it is not there.
AddSourceAccount ==
    /\ input[1] = "ledger"
    /\ ledger_entries' = add_source_account(ledger_entries)
    /\ call' = Some(<<"add_source_account", <<>>, ledger_entries, None>>)
    /\ call_prev' = call
    /\ UNCHANGED <<schema, input, typ, json, scval, trace, result>>

Next ==
    \/ FromJson \/ XdrToJson \/ EncodeArgs \/ DecodeArgs
    \/ FromString \/ FromStringPrimitive \/ Find \/ FindFunction
    \/ PaddedHexFromStr \/ IdFromStr
    \/ AddContractCode \/ AddContract \/ AddSourceAccount

Spec == Init /\ [][Next]_vars

(***************************************************************************)
(* Properties. A state with trace = <<op>> holds in result what op returned *)
(* on the input; a state with trace = <<op1, op2>> holds what op2 returned  *)
(* on the value op1 produced.                                               *)
(***************************************************************************)
JsonGiven == input[1] = "json"
ScValGiven == input[1] = "scval"

Encoded == trace = <<"from_json">> /\ JsonGiven
Decoded == trace = <<"xdr_to_json">> /\ ScValGiven

\* The payload of an ScVal::Object(Some(obj)).
Payload(v) == v[2][2][2]

IsObject(v) == v[1] = "Object" /\ v[2][1] = "Some"

\* C1: decode then encode is the identity. For every type t and every value
\* v in the domain of t, xdr_to_json(v, t) succeeds and from_json of its
\* result under t returns exactly v.
C1_DecodeThenEncode ==
    input \in InDomainInputs =>
        /\ (trace = <<"xdr_to_json">> => IsOk(result))
        /\ (trace = <<"xdr_to_json", "from_json">> => result = Ok(input[3]))

\* The JSON value j of type t with the documented coercions applied: a
\* 128-bit integer as its decimal string and bytes as a lower-case hex
\* string. JSON objects are compared as maps, whatever the order of their
\* keys.
RECURSIVE Coerced(_, _)
Coerced(j, t) ==
    LET e == find(Contract, t[2])
        prim == from_json_primitives(j, t)
    IN  IF t[1] \in {"U128", "I128"} THEN
            IF IsOk(prim) THEN JString(IntToText(Payload(prim[2]))) ELSE j
        ELSE IF t[1] \in {"Bytes", "BytesN"} THEN
            IF IsOk(prim) THEN JString(to_lower_hex(Payload(prim[2]))) ELSE j
        ELSE IF t[1] = "Vec" /\ j[1] = "Array" THEN
            JArray([i \in 1..Len(j[2]) |-> Coerced(j[2][i], t[2])])
        ELSE IF t[1] = "Map" /\ j[1] = "Object" THEN
            JObject([k \in DOMAIN j[2] |-> Coerced(j[2][k], t[3])])
        ELSE IF t[1] = "Option" /\ j # JNull THEN Coerced(j, t[2])
        ELSE IF t[1] = "Tuple" /\ j[1] = "Array" /\ Len(j[2]) = Len(t[2]) THEN
            JArray([i \in 1..Len(j[2]) |-> Coerced(j[2][i], t[2][i])])
        ELSE IF t[1] = "Udt" /\ IsOk(e) /\ e[2][1] = "UdtStructV0" /\ j[1] = "Object" THEN
            JObject([k \in DOMAIN j[2] |->
                IF \E i \in 1..Len(e[2][3]) : e[2][3][i][1] = k
                    THEN Coerced(j[2][k],
                             e[2][3][CHOOSE i \in 1..Len(e[2][3]) : e[2][3][i][1] = k][2])
                ELSE j[2][k]])
        ELSE IF t[1] = "Udt" /\ IsOk(e) /\ e[2][1] = "UdtStructV0" /\ j[1] = "Array"
                /\ Len(j[2]) = Len(e[2][3]) THEN
            JArray([i \in 1..Len(j[2]) |-> Coerced(j[2][i], e[2][3][i][2])])
        ELSE IF t[1] = "Udt" /\ IsOk(e) /\ e[2][1] = "UdtUnionV0" /\ j[1] = "Object" THEN
            JObject([k \in DOMAIN j[2] |->
                IF \E i \in 1..Len(e[2][3]) : e[2][3][i][1] = k /\ e[2][3][i][2][1] = "Some"
                    THEN Coerced(j[2][k],
                             e[2][3][CHOOSE i \in 1..Len(e[2][3]) : e[2][3][i][1] = k][2][2])
                ELSE j[2][k]])
        ELSE j

\* C2: encode then decode is the identity up to the coercions. For every
\* type t and every JSON value j that from_json accepts under t, xdr_to_json
\* of the encoding succeeds and returns j, with 128-bit integers as decimal
\* strings, bytes as lower-case hex strings and map keys in sorted order.
C2_EncodeThenDecode ==
    (trace = <<"from_json", "xdr_to_json">> /\ JsonGiven) =>
        /\ IsOk(result)
        /\ result[2] = Coerced(input[3], input[2])

\* Every map inside the value v, at any depth, has its keys strictly
\* ascending under the order of ScVal.
RECURSIVE MapsAscending(_)
MapsAscending(v) ==
    IF ~IsObject(v) THEN TRUE
    ELSE IF v[2][2][1] = "Vec" THEN \A i \in 1..Len(Payload(v)) : MapsAscending(Payload(v)[i])
    ELSE IF v[2][2][1] = "Map" THEN
        /\ \A i \in 1..(Len(Payload(v)) - 1) :
               ScValCmp(Payload(v)[i][1], Payload(v)[i + 1][1]) < 0
        /\ \A i \in 1..Len(Payload(v)) :
               MapsAscending(Payload(v)[i][1]) /\ MapsAscending(Payload(v)[i][2])
    ELSE TRUE

\* Two different keys of the JSON object given for a map type encode to the
\* same key.
KeysCollide ==
    /\ input[2][1] = "Map" /\ input[3][1] = "Object"
    /\ \E k1, k2 \in DOMAIN input[3][2] :
           /\ k1 # k2
           /\ IsOk(from_string(schema, k1, input[2][2]))
           /\ from_string(schema, k1, input[2][2]) = from_string(schema, k2, input[2][2])

\* C3: every map in a value that from_json returns, at any depth, is strictly
\* ascending by key (sorted, no equal keys), and a JSON object with two keys
\* that encode to the same key is not encoded at all.
C3_MapsCanonical ==
    (Len(trace) > 0 /\ trace[Len(trace)] = "from_json") =>
        /\ (IsOk(result) => MapsAscending(result[2]))
        /\ ((Encoded /\ KeysCollide) => ~IsOk(result))

\* A struct declared as {b, a} and a map written with the keys "10" and "2"
\* are encoded: the order of declaration, and the order of the key texts,
\* is not the order of the keys.
C3_Witness ==
    /\ Encoded /\ IsOk(result) /\ IsObject(result[2])
    /\ result[2][2][2][1] = "Map" /\ Len(Payload(result[2])) = 2
    /\ \/ input[2] = T_Udt(s_Pt)
       \/ (input[2][1] = "Map" /\ <<49, 48>> \in DOMAIN input[3][2])

C5_OptionNeedsObject ==
    (Encoded /\ input[2][1] = "Option" /\ input[3] # JNull) =>
        /\ (IsOk(from_json(schema, input[3], input[2][2]))
            /\ ~IsObject(from_json(schema, input[3], input[2][2])[2]))
               => result = Err(Error_InvalidValue(Some(input[2])))
        /\ IsOk(result) => IsObject(result[2])

C5_Witness ==
    /\ Encoded /\ input[2] = T_Option(T_U32) /\ input[3] = N(1)
    /\ result = Err(Error_InvalidValue(Some(T_Option(T_U32))))

\* The cases of the union UDT named by the type t.
UnionCases(t) == find(schema, t[2])[2][3]

IsUnion(t) == t[1] = "Udt" /\ IsOk(find(schema, t[2])) /\ find(schema, t[2])[2][1] = "UdtUnionV0"

\* C6: every successful encoding of a union value is
\* Object(Vec([Symbol(case), payload?])) with case a declared case, and with
\* the payload there if and only if the declared case carries a type.
C6_UnionDiscipline ==
    (Encoded /\ IsUnion(input[2]) /\ IsOk(result)) =>
        /\ IsObject(result[2]) /\ result[2][2][2][1] = "Vec"
        /\ Len(Payload(result[2])) \in {1, 2}
        /\ Payload(result[2])[1][1] = "Symbol"
        /\ \E i \in 1..Len(UnionCases(input[2])) :
               /\ UnionCases(input[2])[i][1] = Payload(result[2])[1][2]
               /\ (Len(Payload(result[2])) = 2) <=> (UnionCases(input[2])[i][2][1] = "Some")

\* C7: no operation panics. Each of from_json, xdr_to_json, encode_args and
\* decode_args returns a value or an Error.
C7_NoPanic == result = None \/ result[1] \in {"Ok", "Err"}

\* The cases of the const-enum UDT named by the type t.
IsEnum(t) == t[1] = "Udt" /\ IsOk(find(schema, t[2])) /\ find(schema, t[2])[2][1] = "UdtEnumV0"

Declared(t, n) == \E i \in 1..Len(find(schema, t[2])[2][3]) : find(schema, t[2])[2][3][i][2] = n

\* C8: xdr_to_json(U32(n), Udt(E)) for a const enum E returns the case whose
\* value is n, as its number or as its name, and fails with EnumConst(n)
\* when E declares no case with the value n.
C8_EnumDecode ==
    (Decoded /\ IsEnum(input[2]) /\ input[3][1] = "U32") =>
        IF Declared(input[2], input[3][2])
            THEN IsOk(result)
                 /\ \/ result[2] = NumberFrom(input[3][2])
                    \/ \E i \in 1..Len(find(schema, input[2][2])[2][3]) :
                           /\ find(schema, input[2][2])[2][3][i][2] = input[3][2]
                           /\ result[2] = JString(find(schema, input[2][2])[2][3][i][1])
        ELSE result = Err(Error_EnumConst(input[3][2]))

\* C9: from_json(n, Udt(E)) for a JSON number n and a const enum E returns
\* U32(n) exactly when n is the value of a declared case; it fails with
\* EnumConstTooLarge(n) when n is an integer above the u32 range and with
\* EnumConst(n) when n fits u32 and no case has that value. A number that is
\* not a non-negative integer (serde_json holds it as NegInt or Float) is
\* never encoded.
C9_EnumEncode ==
    (Encoded /\ IsEnum(input[2]) /\ input[3][1] = "Number") =>
        IF input[3][2][1] # "PosInt" THEN ~IsOk(result)
        ELSE IF MagCmp(input[3][2][2], U32_MAX) > 0
            THEN result = Err(Error_EnumConstTooLarge(Big(FALSE, input[3][2][2])))
        ELSE IF Declared(input[2], Big(FALSE, input[3][2][2]))
            THEN result = Ok(ScVal_U32(Big(FALSE, input[3][2][2])))
        ELSE result = Err(Error_EnumConst(Big(FALSE, input[3][2][2])))

C9_Witness ==
    /\ Encoded /\ input[2] = T_Udt(s_Status) /\ input[3] = N(2)
    /\ result = Err(Error_EnumConst(Nat2Big(2)))

\* The JSON object written in the text given to encode_args.
ArgsObject == serde_json_from_str(input[4])[2][2]

\* The declared inputs of the function given to encode_args.
DeclaredInputs == find_function(schema, input[3])[2][3]

\* The JSON object m without the keys that are not declared inputs.
OnlyDeclared(m) ==
    [k \in {x \in DOMAIN m : \E i \in 1..Len(DeclaredInputs) : DeclaredInputs[i][1] = x} |-> m[k]]

\* C10: encode_args(contract_id, f, json_args), when it succeeds, returns
\* Object(Bytes(contract_id)) of 32 bytes, then Symbol(f), then the encoding
\* of each declared input under its declared type, in the order of
\* declaration. The order of the keys in the text changes nothing, and
\* neither do the keys that are not declared inputs.
C10_EncodeArgsLayout ==
    (trace = <<"encode_args">> /\ IsOk(result)) =>
        /\ Len(result[2]) = 2 + Len(DeclaredInputs)
        /\ result[2][1] = ObjVal(ScObject_Bytes(input[2])) /\ Len(input[2]) = 32
        /\ result[2][2] = ScVal_Symbol(input[3])
        /\ \A i \in 1..Len(DeclaredInputs) :
               Ok(result[2][2 + i])
                   = from_json(schema, ArgsObject[DeclaredInputs[i][1]], DeclaredInputs[i][2])
        /\ \A a \in ArgTexts :
               (/\ IsOk(serde_json_from_str(a))
                /\ serde_json_from_str(a)[2][1] = "Object"
                /\ OnlyDeclared(serde_json_from_str(a)[2][2]) = OnlyDeclared(ArgsObject))
                   => encode_args(schema, input[2], input[3], a) = result

\* add(b, a) is called with an object written a first and a key c that is no
\* input: the arguments come out as b, then a.
C10_Witness ==
    /\ trace = <<"encode_args">> /\ IsOk(result) /\ input[3] = s_add
    /\ Len(result[2]) = 4
    /\ result[2][3][1] = "U32" /\ result[2][4][1] = "Symbol"
    /\ DOMAIN ArgsObject = {s_a, s_b, s_c}

\* The JSON value written in the text given to encode_args.
ArgsValue == serde_json_from_str(input[4])

\* C11: encode_args returns an error, and no vector, when the function name
\* is no function of the schema (MissingEntry), when the text is not JSON,
\* when the JSON is not an object, and when the object lacks the name of a
\* declared input.
C11_EncodeArgsErrors ==
    trace = <<"encode_args">> =>
        /\ ~IsOk(find_function(schema, input[3]))
               => result = Err(Error_MissingEntry(input[3]))
        /\ (/\ IsOk(find_function(schema, input[3]))
            /\ \/ ~IsOk(ArgsValue)
               \/ ArgsValue[2][1] # "Object"
               \/ \E i \in 1..Len(DeclaredInputs) : DeclaredInputs[i][1] \notin DOMAIN ArgsValue[2][2])
               => result[1] = "Err"

\* C12: decode_args for a function whose first declared output is Symbol and
\* whose returned value is Symbol(s) gives the text s, with no double quotes
\* around it; the symbols inside a returned vector are written with quotes.
C12_TopLevelSymbol ==
    (/\ trace = <<"decode_args">> /\ input[3][1] = "Some"
     /\ IsOk(find_function(schema, input[2]))
     /\ Len(find_function(schema, input[2])[2][4]) > 0) =>
        /\ (find_function(schema, input[2])[2][4][1] = T_Symbol /\ input[3][2][1] = "Symbol")
               => result = Ok(input[3][2][2])
        /\ (/\ find_function(schema, input[2])[2][4][1] = T_Vec(T_Symbol)
            /\ IsObject(input[3][2]) /\ input[3][2][2][2][1] = "Vec"
            /\ \A i \in 1..Len(Payload(input[3][2])) : Payload(input[3][2])[i][1] = "Symbol")
               => result = Ok(JsonToString(JArray([i \in 1..Len(Payload(input[3][2])) |->
                                 JString(Payload(input[3][2])[i][2])])))

\* The last call on the ledger entries and the one before it.
Called(op) == call # None /\ call[2][1] = op
CalledTwice(op) ==
    /\ Called(op)
    /\ call_prev # None /\ call_prev[2][1] = op /\ call_prev[2][2] = call[2][2]
CallArgs == call[2][2]
Before == call[2][3]
Returned == call[2][4]

\* The positions of the entries of the list that have the key.
WithKey(entries, key) == {i \in 1..Len(entries) : entries[i][1] = key}

\* C13: add_contract_code_to_ledger_entries returns contract_hash(bytes);
\* after it the list holds exactly one entry keyed ContractCode(hash), and
\* the code of that entry is the bytes; a second call in a row with the same
\* bytes returns the same hash and leaves the list, its length and its
\* contents, as it was.
C13_InstallCodeIdempotent ==
    Called("add_contract_code") =>
        /\ Returned = contract_hash(CallArgs[1])
        /\ IsOk(Returned) =>
              /\ Cardinality(WithKey(ledger_entries, LedgerKey_ContractCode(Returned[2]))) = 1
              /\ \A i \in WithKey(ledger_entries, LedgerKey_ContractCode(Returned[2])) :
                     ledger_entries[i][2]
                         = LedgerEntry(0, ContractCodeEntry(CallArgs[1], Returned[2]))
        /\ CalledTwice("add_contract_code") =>
              /\ call_prev[2][4] = Returned
              /\ Len(ledger_entries) = Len(Before)
              /\ ledger_entries = Before

\* The same code is installed twice in a row in a list that holds other
\* entries too.
C13_Witness ==
    /\ CalledTwice("add_contract_code") /\ IsOk(Returned)
    /\ Len(ledger_entries) >= 3
    /\ ledger_entries[Len(ledger_entries)][1] # LedgerKey_ContractCode(Returned[2])

\* The key and the entry that add_contract_to_ledger_entries writes for the
\* arguments of the last call.
ContractKey == LedgerKey_ContractData(CallArgs[1], ScVal_Static("LedgerKeyContractCode"))
ContractEntry ==
    LedgerEntry(0, ContractDataEntry(CallArgs[1], ScVal_Static("LedgerKeyContractCode"),
        ObjVal(ScObject_ContractCode(ScContractCode_WasmRef(CallArgs[2])))))

\* C14: add_contract_to_ledger_entries(id, wasm_hash): when the list has an
\* entry keyed ContractData(id, LedgerKeyContractCode) the value of that
\* entry is replaced where it stands by one pointing to WasmRef(wasm_hash)
\* and the length stays; otherwise one such entry is appended at the end.
\* Every other entry stays as it was and where it was, and the same call
\* made again changes nothing.
C14_InstallContractFrame ==
    Called("add_contract") =>
        /\ IF WithKey(Before, ContractKey) # {}
               THEN /\ Len(ledger_entries) = Len(Before)
                    /\ \A i \in 1..Len(Before) :
                           ledger_entries[i] = IF Before[i][1] = ContractKey
                                                   THEN <<ContractKey, ContractEntry>>
                                               ELSE Before[i]
           ELSE ledger_entries = Append(Before, <<ContractKey, ContractEntry>>)
        /\ CalledTwice("add_contract") => ledger_entries = Before

\* A contract that is not the last entry of the list is pointed to another
\* code.
C14_Witness ==
    /\ Called("add_contract")
    /\ \E i \in 1..(Len(Before) - 1) :
           /\ Before[i][1] = ContractKey
           /\ Before[i][2] # ContractEntry
           /\ ledger_entries[i] = <<ContractKey, ContractEntry>>

\* The positions of the entries of the schema that have the name.
Named(name) ==
    IF schema = Spec_default THEN {}
    ELSE {i \in 1..Len(schema[2]) : schema[2][i][2] = name}

\* The first entry of the schema that has the name.
FirstNamed(name) == schema[2][CHOOSE i \in Named(name) : \A j \in Named(name) : i <= j]

\* C15: find(name) returns the first entry, in the order of declaration,
\* whose name is name, and fails with MissingEntry(name) when there is none;
\* find_function(name) fails with MissingEntry(name) when find fails and
\* when the entry found is no function; on the default schema, which has no
\* entries, both fail with MissingEntry for every name.
C15_SchemaLookups ==
    /\ trace = <<"find">> =>
           result = IF Named(input[2]) = {} THEN Err(Error_MissingEntry(input[2]))
                    ELSE Ok(FirstNamed(input[2]))
    /\ trace = <<"find_function">> =>
           result = IF Named(input[2]) = {} \/ FirstNamed(input[2])[1] # "FunctionV0"
                        THEN Err(Error_MissingEntry(input[2]))
                    ELSE Ok(FirstNamed(input[2]))
    /\ (trace \in {<<"find">>, <<"find_function">>} /\ schema = Spec_default) =>
           result = Err(Error_MissingEntry(input[2]))

\* A name that two entries of the schema carry is looked up, and the
\* function declared first is found.
C15_Witness ==
    /\ trace = <<"find_function">> /\ schema # Spec_default
    /\ Cardinality(Named(input[2])) = 2
    /\ IsOk(result) /\ result[2][1] = "FunctionV0"

\* The type t names a UDT, itself or anywhere inside it.
RECURSIVE RefersToUdt(_)
RefersToUdt(t) ==
    IF t[1] = "Udt" THEN TRUE
    ELSE IF t[1] \in {"Option", "Vec", "Set"} THEN RefersToUdt(t[2])
    ELSE IF t[1] \in {"Map", "Result"} THEN RefersToUdt(t[2]) \/ RefersToUdt(t[3])
    ELSE IF t[1] = "Tuple" THEN \E i \in 1..Len(t[2]) : RefersToUdt(t[2][i])
    ELSE FALSE

\* C16: from_string_primitive(s, t) fails for every text s when the type t
\* names a UDT anywhere in it, under Option, Vec, Map or Tuple too.
C16_PrimitiveRejectsUdt ==
    (trace = <<"from_string_primitive">> /\ RefersToUdt(input[2])) => result[1] = "Err"

\* C17: every successful from_json(v, BytesN(n)), for v a strkey string, a
\* hex string or an array of byte values, is Object(Bytes(b)) with b of
\* exactly n bytes.
C17_BytesNLength ==
    (Encoded /\ input[2][1] = "BytesN" /\ input[3][1] \in {"String", "Array"} /\ IsOk(result)) =>
        /\ IsObject(result[2]) /\ result[2][2][2][1] = "Bytes"
        /\ Len(Payload(result[2])) = input[2][2]

\* The types that are recognized and not implemented.
Reserved(t) == t[1] \in {"Bitset", "Status", "Result", "Set"}

\* C18: encoding or decoding a reserved type neither succeeds nor panics:
\* from_json(j, t) for t one of Bitset, Status, Result and Set returns an
\* error for every JSON j, and so does xdr_to_json(v, t) for these types and
\* for a value that is a Bitset, a Status or a ContractCode.
C18_ReservedUnsupported ==
    /\ (Encoded /\ Reserved(input[2])) => result[1] = "Err"
    /\ (/\ Decoded
        /\ \/ Reserved(input[2])
           \/ input[3][1] \in {"Bitset", "Status"}
           \/ (IsObject(input[3]) /\ input[3][2][2][1] = "ContractCode"))
           => result[1] = "Err"

\* The bytes written as hex digits, two for a byte, the high one first.
Nibbles(bytes) ==
    [i \in 1..(2 * Len(bytes)) |->
        IF i % 2 = 1 THEN bytes[(i + 1) \div 2] \div 16 ELSE bytes[i \div 2] % 16]

\* The text is made of hex digits only.
IsHexText(s) == \A i \in 1..Len(s) : HexVal(s[i]) >= 0

\* C19: padded_hex_from_str(s, n) and id_from_str pad s on the left with '0'
\* to 2n hex digits and decode: for a hex text s of at most 2n digits the
\* result is n bytes whose digits are those of s after the zeros, which is
\* the big-endian number that s writes; a text of more than 2n characters,
\* or with a character that is no hex digit, is an error.
C19_LeftPadding ==
    trace \in {<<"padded_hex_from_str">>, <<"id_from_str">>} =>
        IF Len(input[2]) <= 2 * input[3] /\ IsHexText(input[2])
            THEN /\ IsOk(result)
                 /\ Len(result[2]) = input[3]
                 /\ Nibbles(result[2])
                        = [i \in 1..(2 * input[3] - Len(input[2])) |-> 0]
                              \o [i \in 1..Len(input[2]) |-> HexVal(input[2][i])]
        ELSE result[1] = "Err"

\* "1" with n = 32: 31 zero bytes and then 0x01.
C19_Witness ==
    /\ trace = <<"id_from_str">> /\ input = <<"hex", <<49>>, 32>>
    /\ result = Ok([i \in 1..32 |-> IF i = 32 THEN 1 ELSE 0])

\* The type t names a struct UDT, and its declared fields.
IsStruct(t) == t[1] = "Udt" /\ IsOk(find(schema, t[2])) /\ find(schema, t[2])[2][1] = "UdtStructV0"
Fields(t) == find(schema, t[2])[2][3]

\* The value of the entry of the map m whose key is Symbol(name).
EntryOf(m, name) == m[CHOOSE i \in 1..Len(m) : m[i][1] = ScVal_Symbol(name)][2]

\* C20: xdr_to_json of the map that encodes a struct returns a JSON object
\* whose keys are the declared fields, each field with the decoding, under
\* its declared type, of the entry whose key is Symbol(field), also when the
\* fields are not declared in the sorted order of the keys. (A JSON object
\* is held by its keys here, so the order of the keys in it is not stated.)
C20_StructDecode ==
    (/\ Decoded /\ input \in InDomainInputs /\ IsStruct(input[2])
     /\ input[3][2][2][1] = "Map") =>
        /\ IsOk(result) /\ result[2][1] = "Object"
        /\ DOMAIN result[2][2] = {Fields(input[2])[i][1] : i \in 1..Len(Fields(input[2]))}
        /\ \A i \in 1..Len(Fields(input[2])) :
               Ok(result[2][2][Fields(input[2])[i][1]])
                   = xdr_to_json(schema, EntryOf(Payload(input[3]), Fields(input[2])[i][1]),
                                 Fields(input[2])[i][2])

\* The encodings of the declared fields of the struct t, taken from the JSON
\* object m by the names of the fields.
FieldEncoding(t, m, i) == from_json(schema, m[Fields(t)[i][1]], Fields(t)[i][2])

\* C21: from_json of a JSON object for a struct with k declared fields
\* returns Object(Map) with exactly k entries, one for each declared field,
\* keyed Symbol(field) and holding from_json of the object's value at the
\* field under the field's type, and fails when the object lacks a declared
\* field; from_json of a JSON array returns Object(Vec) with exactly k
\* elements, element i the encoding of element i of the array under the
\* type of field i, and an array whose length is not k is not accepted.
C21_StructEncode ==
    (Encoded /\ IsStruct(input[2])) =>
        /\ input[3][1] = "Object" =>
              IF \E i \in 1..Len(Fields(input[2])) : Fields(input[2])[i][1] \notin DOMAIN input[3][2]
                  THEN result[1] = "Err"
              ELSE IsOk(result) =>
                      /\ IsObject(result[2]) /\ result[2][2][2][1] = "Map"
                      /\ Len(Payload(result[2])) = Len(Fields(input[2]))
                      /\ \A i \in 1..Len(Fields(input[2])) :
                             Ok(EntryOf(Payload(result[2]), Fields(input[2])[i][1]))
                                 = FieldEncoding(input[2], input[3][2], i)
        /\ input[3][1] = "Array" =>
              IF Len(input[3][2]) # Len(Fields(input[2])) THEN result[1] = "Err"
              ELSE IsOk(result) =>
                      /\ IsObject(result[2]) /\ result[2][2][2][1] = "Vec"
                      /\ Len(Payload(result[2])) = Len(Fields(input[2]))
                      /\ \A i \in 1..Len(Fields(input[2])) :
                             Ok(Payload(result[2])[i])
                                 = from_json(schema, input[3][2][i], Fields(input[2])[i][2])

\* C22: xdr_to_json of a vector against a union UDT (udt_to_json) reads
\* element 0 as a Symbol that names a declared case. For a case with no
\* payload type the result is the JSON string of the name; for a case with a
\* payload type it is the object {name: xdr_to_json(element 1, type)}, and
\* the error EnumMissingSecondValue when the vector has no element 1. An
\* element 0 that is no Symbol, or that names no declared case, is an error.
\* (The vector has an element 0 here; on the empty vector the read of
\* element 0 is out of range.)
C22_UnionDecode ==
    (/\ Decoded /\ IsUnion(input[2]) /\ IsObject(input[3])
     /\ input[3][2][2][1] = "Vec" /\ Len(Payload(input[3])) >= 1) =>
        IF \/ Payload(input[3])[1][1] # "Symbol"
           \/ \A i \in 1..Len(UnionCases(input[2])) :
                  UnionCases(input[2])[i][1] # Payload(input[3])[1][2]
            THEN result[1] = "Err"
        ELSE \A i \in 1..Len(UnionCases(input[2])) :
                 UnionCases(input[2])[i][1] = Payload(input[3])[1][2] =>
                     IF UnionCases(input[2])[i][2] = None
                         THEN result = Ok(JString(UnionCases(input[2])[i][1]))
                     ELSE IF Len(Payload(input[3])) < 2
                         THEN /\ result[1] = "Err"
                              /\ result[2][1] = "EnumMissingSecondValue"
                              /\ result[2][2] = UnionCases(input[2])[i][1]
                     ELSE IF IsOk(xdr_to_json(schema, Payload(input[3])[2],
                                              UnionCases(input[2])[i][2][2]))
                         THEN result = Ok(Obj1(UnionCases(input[2])[i][1],
                                  xdr_to_json(schema, Payload(input[3])[2],
                                              UnionCases(input[2])[i][2][2])[2]))
                     ELSE result[1] = "Err"

\* A vector that names the case with a payload and holds no payload is
\* decoded.
C22_Witness ==
    /\ Decoded /\ input[2] = T_Udt(s_Color)
    /\ input[3] = ObjVal(ScObject_Vec(<<ScVal_Symbol(s_Named)>>))
    /\ result[1] = "Err" /\ result[2][1] = "EnumMissingSecondValue"

\* No two entries of the list have the same key.
KeysUnique(entries) ==
    \A i, j \in 1..Len(entries) : entries[i][1] = entries[j][1] => i = j

\* The data stored in an entry is the data of its key: the hash of a
\* ContractCode entry is the hash of the key, the contract id and the key of
\* a ContractData entry are those of the key, and an account entry is that
\* of the account of the key.
DataMatchesKey(e) ==
    /\ e[2][2][1] = e[1][1]
    /\ e[1][1] = "ContractCode" => e[2][2][3] = e[1][2]
    /\ e[1][1] = "ContractData" => (e[2][2][2] = e[1][2] /\ e[2][2][3] = e[1][3])
    /\ e[1][1] = "Account" => e[2][2][2] = e[1][2]

\* C23: after any sequence of add_contract_code_to_ledger_entries and
\* add_contract_to_ledger_entries calls and the insertion of the source
\* account done in Spec::run, on a list that began with no two equal keys,
\* no two entries have equal keys, no call has made the list shorter than it
\* was before the call, and the data of every entry matches its key.
C23_KeysUnique ==
    /\ KeysUnique(ledger_entries)
    /\ call # None => (KeysUnique(Before) /\ Len(ledger_entries) >= Len(Before))
    /\ \A i \in 1..Len(ledger_entries) : DataMatchesKey(ledger_entries[i])

\* The source account is inserted, codes and contracts are added after it,
\* one of them by a call that found its key in the list, and the insertion
\* of the source account is run again.
C23_Witness ==
    /\ Called("add_source_account") /\ ledger_entries = Before
    /\ call_prev # None /\ call_prev[2][1] # "add_source_account"
    /\ Len(call_prev[2][3]) = Len(ledger_entries)
    /\ \E i, j, k \in 1..Len(ledger_entries) :
           /\ ledger_entries[i][1][1] = "ContractCode"
           /\ ledger_entries[j][1][1] = "ContractData"
           /\ ledger_entries[k][1][1] = "Account"

\* The JSON value that the text given to from_string writes.
TextValue == serde_json_from_str(input[3])

\* C24: for a type Option(T) and a text s that is valid JSON,
\* from_string(s, Option(T)) returns what from_json(parse(s), Option(T))
\* returns: the same ScVal, or an error where from_json gives an error.
C24_TextAndJsonAgree ==
    (trace = <<"from_string">> /\ input[2][1] = "Option" /\ IsOk(TextValue)) =>
        IF IsOk(from_json(schema, TextValue[2], input[2]))
            THEN result = from_json(schema, TextValue[2], input[2])
        ELSE result[1] = "Err"
====
